---- MODULE Spec2Model ----
(***************************************************************************)
(* mnmd-anki-sync: the sync driver (Syncer.sync_file), the cloze tokenizer, *)
(* the context extractor, the prompt generator, the identity codec and the *)
(* ID writer, modelled from the Python sources.                            *)
(*                                                                         *)
(* A text is a sequence of characters, each character a one-character      *)
(* string.  Positions are 0-based as in the Python sources; SubSeq and     *)
(* indexing add 1 where they touch a TLA+ sequence.  An Optional value is  *)
(* None (the empty tuple) or Some(v) (a one-element tuple).                *)
(***************************************************************************)
EXTENDS Integers, Sequences, FiniteSets, TLC

None == << >>
Some(v) == << v >>
IsNone(o) == o = << >>
Val(o) == o[1]

NotFound == 0 - 1

Min(a, b) == IF a < b THEN a ELSE b
Max(a, b) == IF a > b THEN a ELSE b

(***************************************************************************)
(* Python str primitives                                                   *)
(***************************************************************************)

\* text[a:b] for 0 <= a, b (clamped like a Python slice)
Slice(t, a, b) == SubSeq(t, a + 1, Min(b, Len(t)))

\* text[i:i+len(p)] == p
OccursAt(t, p, i) ==
  /\ i >= 0
  /\ i + Len(p) <= Len(t)
  /\ \A k \in 1..Len(p) : t[i + k] = p[k]

\* str.find(p, from): least 0-based index >= from where p occurs, else -1
RECURSIVE StrFind(_, _, _)
StrFind(t, p, from) ==
  IF from + Len(p) > Len(t) THEN NotFound
  ELSE IF OccursAt(t, p, from) THEN from
  ELSE StrFind(t, p, from + 1)

\* p in t
Contains(t, p) == StrFind(t, p, 0) # NotFound

\* str.replace(old, new, 1): the first occurrence only
ReplaceFirst(t, old, new) ==
  LET i == StrFind(t, old, 0)
  IN IF i = NotFound \/ Len(old) = 0 THEN t
     ELSE Slice(t, 0, i) \o new \o Slice(t, i + Len(old), Len(t))

\* str.replace(old, new) with a one-character old: every occurrence
RECURSIVE ReplaceAllChar(_, _, _)
ReplaceAllChar(t, c, new) ==
  IF t = << >> THEN << >>
  ELSE (IF Head(t) = c THEN new ELSE << Head(t) >>) \o ReplaceAllChar(Tail(t), c, new)

\* str.replace(old, ""): every occurrence, left to right
RECURSIVE RemoveAll(_, _)
RemoveAll(t, old) ==
  IF t = << >> THEN << >>
  ELSE IF OccursAt(t, old, 0) THEN RemoveAll(Slice(t, Len(old), Len(t)), old)
  ELSE << Head(t) >> \o RemoveAll(Tail(t), old)

\* str.split(sep) with a one-character sep: the list of all fields
RECURSIVE SplitAll(_, _)
SplitAll(t, c) ==
  LET i == StrFind(t, << c >>, 0)
  IN IF i = NotFound THEN << t >>
     ELSE << Slice(t, 0, i) >> \o SplitAll(Slice(t, i + 1, Len(t)), c)

\* str.split(sep, 1) with a one-character sep that occurs in t
SplitOnce(t, c) ==
  LET i == StrFind(t, << c >>, 0)
  IN << Slice(t, 0, i), Slice(t, i + 1, Len(t)) >>

\* sep.join(parts) with a one-character sep
RECURSIVE Join(_, _)
Join(parts, c) ==
  IF parts = << >> THEN << >>
  ELSE IF Len(parts) = 1 THEN parts[1]
  ELSE parts[1] \o << c >> \o Join(Tail(parts), c)

\* text.count("\n")
RECURSIVE CountChar(_, _)
CountChar(t, c) ==
  IF t = << >> THEN 0
  ELSE (IF Head(t) = c THEN 1 ELSE 0) + CountChar(Tail(t), c)

Whitespace == {" ", "\n"}
Digits == {"0", "1", "2", "3", "4", "5", "6", "7", "8", "9"}

RECURSIVE LStrip(_)
LStrip(t) ==
  IF t # << >> /\ Head(t) \in Whitespace THEN LStrip(Tail(t)) ELSE t

RECURSIVE RStrip(_)
RStrip(t) ==
  IF t # << >> /\ t[Len(t)] \in Whitespace THEN RStrip(SubSeq(t, 1, Len(t) - 1)) ELSE t

Strip(t) == RStrip(LStrip(t))

\* str.isdigit()
IsDigit(t) == t # << >> /\ \A k \in 1..Len(t) : t[k] \in Digits

DigitVal(c) ==
  CASE c = "0" -> 0 [] c = "1" -> 1 [] c = "2" -> 2 [] c = "3" -> 3 [] c = "4" -> 4
    [] c = "5" -> 5 [] c = "6" -> 6 [] c = "7" -> 7 [] c = "8" -> 8 [] c = "9" -> 9

RECURSIVE DecimalVal(_)
DecimalVal(t) ==
  IF t = << >> THEN 0 ELSE DecimalVal(SubSeq(t, 1, Len(t) - 1)) * 10 + DigitVal(t[Len(t)])

\* int(s): Some(n), or None where Python raises ValueError
ParseInt(s) ==
  LET t == Strip(s)
  IN IF IsDigit(t) THEN Some(DecimalVal(t))
     ELSE IF t # << >> /\ Head(t) = "-" /\ IsDigit(Tail(t)) THEN Some(0 - DecimalVal(Tail(t)))
     ELSE IF t # << >> /\ Head(t) = "+" /\ IsDigit(Tail(t)) THEN Some(DecimalVal(Tail(t)))
     ELSE None

(***************************************************************************)
(* utils/base52.py                                                         *)
(***************************************************************************)

BASE52_CHARS ==
  << "a", "b", "c", "d", "e", "f", "g", "h", "i", "j", "k", "l", "m",
     "n", "o", "p", "q", "r", "s", "t", "u", "v", "w", "x", "y", "z",
     "A", "B", "C", "D", "E", "F", "G", "H", "I", "J", "K", "L", "M",
     "N", "O", "P", "Q", "R", "S", "T", "U", "V", "W", "X", "Y", "Z" >>

Base52Set == { BASE52_CHARS[k] : k \in 1..52 }

\* a letter that str.isalpha() accepts and the codec alphabet does not hold
NonAsciiLetter == "e-acute"

\* str.isalpha()
IsAlpha(t) == t # << >> /\ \A k \in 1..Len(t) : t[k] \in Base52Set \cup { NonAsciiLetter }

\* BASE52_CHARS.index(char)
Base52Index(c) == (CHOOSE k \in 1..52 : BASE52_CHARS[k] = c) - 1

\* lines 28-30: the list result after the while loop
RECURSIVE encode_base52_loop(_)
encode_base52_loop(num) ==
  IF num = 0 THEN << >>
  ELSE << BASE52_CHARS[(num % 52) + 1] >> \o encode_base52_loop(num \div 52)

\* the list as it is
Unreversed(result) == result

\* line 31: reversed(result)
Reversed(result) == [ k \in 1..Len(result) |-> result[Len(result) + 1 - k] ]

encode_base52(num) ==
  IF num = 0 THEN << BASE52_CHARS[1] >> ELSE Reversed(encode_base52_loop(num))

RECURSIVE decode_base52_loop(_, _)
decode_base52_loop(s, result) ==
  IF s = << >> THEN result
  ELSE decode_base52_loop(Tail(s), result * 52 + Base52Index(Head(s)))

\* Some(n), or None where the code raises ValueError
decode_base52(s) ==
  IF ~IsAlpha(s) THEN None
  ELSE IF \E k \in 1..Len(s) : s[k] \notin Base52Set THEN None
  ELSE Some(decode_base52_loop(s, 0))

(***************************************************************************)
(* parser/cloze_parser.py                                                  *)
(***************************************************************************)

\* the length of the run of c at the head of t
RECURSIVE CharRun(_, _)
CharRun(t, c) ==
  IF t # << >> /\ Head(t) = c THEN 1 + CharRun(Tail(t), c) ELSE 0

\* re.sub(r"\n{2,}", PARA, text), then "\n" -> " ", then PARA -> "\n\n"
RECURSIVE NormalizeNewlines(_)
NormalizeNewlines(t) ==
  IF t = << >> THEN << >>
  ELSE IF Head(t) # "\n" THEN << Head(t) >> \o NormalizeNewlines(Tail(t))
  ELSE LET run == CharRun(t, "\n")
       IN (IF run >= 2 THEN << "\n", "\n" >> ELSE << " " >>)
            \o NormalizeNewlines(Slice(t, run, Len(t)))

\* re.sub(r" {2,}", " ", text)
RECURSIVE CollapseSpaces(_)
CollapseSpaces(t) ==
  IF t = << >> THEN << >>
  ELSE IF Head(t) = " " /\ Len(t) >= 2 /\ t[2] = " " THEN CollapseSpaces(Tail(t))
  ELSE << Head(t) >> \o CollapseSpaces(Tail(t))

normalize_whitespace(text) == CollapseSpaces(NormalizeNewlines(text))

\* (answer, hint, extra); hint and extra are Optional
parse_content(content_str) ==
  LET norm == normalize_whitespace(content_str)
      hasExtra == Contains(norm, << "<" >>)
      head == IF hasExtra THEN SplitOnce(norm, "<")[1] ELSE norm
      extra == IF hasExtra THEN SplitOnce(norm, "<")[2] ELSE << >>
      hasHint == Contains(head, << "|" >>)
      answer == IF hasHint THEN SplitOnce(head, "|")[1] ELSE head
      hint == IF hasHint THEN SplitOnce(head, "|")[2] ELSE << >>
  IN [ answer |-> Strip(answer),
       hint |-> IF hint # << >> THEN Some(Strip(hint)) ELSE None,
       extra |-> IF extra # << >> THEN Some(Strip(extra)) ELSE None ]

\* one pass of the loop over the comma-separated parts
RECURSIVE parse_cloze_ids_loop(_, _)
parse_cloze_ids_loop(parts, acc) ==
  IF parts = << >> THEN acc
  ELSE LET part == Strip(Head(parts))
           next ==
             IF Contains(part, << "." >>)
             THEN [ acc EXCEPT !.cloze_id = Some(Strip(SplitOnce(part, ".")[1])),
                               !.sequence_order = ParseInt(SplitOnce(part, ".")[2]) ]
             ELSE IF IsDigit(part) THEN [ acc EXCEPT !.cloze_id = Some(part) ]
             ELSE IF IsAlpha(part) THEN [ acc EXCEPT !.anki_id = Some(part) ]
             ELSE acc
       IN parse_cloze_ids_loop(Tail(parts), next)

NoIds == [ cloze_id |-> None, sequence_order |-> None, anki_id |-> None ]

parse_cloze_ids(ids_str) ==
  IF ids_str = << >> THEN NoIds
  ELSE parse_cloze_ids_loop(SplitAll(ids_str, ","), NoIds)

\* the length of the longest run of digits at the head of t
RECURSIVE DigitRun(_)
DigitRun(t) ==
  IF t # << >> /\ Head(t) \in Digits THEN 1 + DigitRun(Tail(t)) ELSE 0

\* re.match(r"-?\d+", t): the length matched, 0 for no match
SignedIntLen(t) ==
  LET neg == IF t # << >> /\ Head(t) = "-" THEN 1 ELSE 0
      d == DigitRun(Slice(t, neg, Len(t)))
  IN IF d = 0 THEN 0 ELSE neg + d

\* re.match(r"\[(-?\d+(?:,\s*-?\d+)?)\]", t): the length matched, 0 for no match
ScopeMatchLen(t) ==
  IF t = << >> \/ Head(t) # "[" THEN 0
  ELSE LET n1 == SignedIntLen(Tail(t))
           p1 == 1 + n1
       IN IF n1 = 0 THEN 0
          ELSE IF p1 < Len(t) /\ t[p1 + 1] = "]" THEN p1 + 1
          ELSE IF p1 < Len(t) /\ t[p1 + 1] = ","
          THEN LET rest == Slice(t, p1 + 1, Len(t))
                   ws == Len(rest) - Len(LStrip(rest))
                   n2 == SignedIntLen(Slice(rest, ws, Len(rest)))
                   p2 == p1 + 1 + ws + n2
               IN IF n2 # 0 /\ p2 < Len(t) /\ t[p2 + 1] = "]" THEN p2 + 1 ELSE 0
          ELSE 0

Abs(n) == IF n < 0 THEN 0 - n ELSE n

\* models.ScopeSpec with its two field validators
ScopeSpec(before, after) == [ before |-> 0 - Abs(before), after |-> Abs(after) ]

\* parse_scope(scope_str, in_list): scope_str is Optional
parse_scope(scope_str, in_list) ==
  LET default == IF in_list THEN ScopeSpec(0 - 1, 0) ELSE ScopeSpec(0, 0)
  IN IF IsNone(scope_str) \/ Val(scope_str) = << >> THEN default
     ELSE LET parts == SplitAll(Val(scope_str), ",")
              v1 == ParseInt(parts[1])
          IN IF Len(parts) = 1
             THEN IF IsNone(v1) THEN default
                  ELSE IF Val(v1) < 0 THEN ScopeSpec(Val(v1), 0)
                  ELSE ScopeSpec(0, Val(v1))
             ELSE LET v2 == ParseInt(parts[2])
                  IN IF IsNone(v1) \/ IsNone(v2) THEN default
                     ELSE ScopeSpec(Val(v1), Val(v2))

RECURSIVE find_closing_braces_loop(_, _, _)
find_closing_braces_loop(text, i, depth) ==
  IF i >= Len(text) THEN NotFound
  ELSE IF text[i + 1] = "{" THEN find_closing_braces_loop(text, i + 1, depth + 1)
  ELSE IF text[i + 1] = "}"
  THEN IF depth - 1 = 1 /\ i + 1 < Len(text) /\ text[i + 2] = "}" THEN i
       ELSE find_closing_braces_loop(text, i + 1, depth - 1)
  ELSE find_closing_braces_loop(text, i + 1, depth)

\* the position of the closing braces, NotFound for None
find_closing_braces(text, start) == find_closing_braces_loop(text, start, 0)

\* the ClozeMatch built for the cloze that opens at start_pos and closes at end_pos
ClozeAt(text, start_pos, end_pos, start_line, in_list) ==
  LET after == Slice(text, end_pos + 2, Len(text))
      slen == IF end_pos + 2 < Len(text) /\ text[end_pos + 3] = "[" THEN ScopeMatchLen(after) ELSE 0
      scope_str == IF slen > 0 THEN Some(Slice(after, 1, slen - 1)) ELSE None
      scope_end == end_pos + 2 + slen
      content_with_ids == Slice(text, start_pos + 2, end_pos)
      hasIds == Contains(content_with_ids, << ">" >>)
      ids == IF hasIds THEN SplitOnce(content_with_ids, ">")[1] ELSE << >>
      content == IF hasIds THEN SplitOnce(content_with_ids, ">")[2] ELSE content_with_ids
      c == parse_content(content)
      i == parse_cloze_ids(ids)
  IN [ full_text |-> Slice(text, start_pos, scope_end),
       start |-> start_pos,
       end |-> scope_end,
       cloze_id |-> i.cloze_id,
       sequence_order |-> i.sequence_order,
       anki_id |-> i.anki_id,
       answer |-> c.answer,
       hint |-> c.hint,
       extra |-> c.extra,
       scope |-> parse_scope(scope_str, in_list),
       cloze_type |-> IF ~IsNone(i.sequence_order) THEN "sequence"
                      ELSE IF ~IsNone(i.cloze_id) THEN "grouped" ELSE "basic",
       line_number |-> start_line + CountChar(Slice(text, 0, start_pos), "\n") ]

\* the scan goes on one character after the opener of the cloze
InsideCloze(text, m) == m.start + 1

\* lines 314-315: "i = scope_end", the scan goes on after the cloze it emitted
PastCloze(text, m) == m.end

\* the scan stops at the cloze it dropped
ToTheEnd(text, m) == Len(text)

\* lines 275-277: "i = scope_end; continue", the scan goes on after the cloze
\* it dropped
PastDropped(text, m) == m.end

RECURSIVE parse_clozes_loop(_, _, _, _)
parse_clozes_loop(text, i, start_line, in_list) ==
  IF ~(i < Len(text) - 1) THEN << >>
  ELSE IF ~OccursAt(text, << "{", "{" >>, i) THEN parse_clozes_loop(text, i + 1, start_line, in_list)
  ELSE LET end_pos == find_closing_braces(text, i)
       IN IF end_pos = NotFound THEN parse_clozes_loop(text, i + 1, start_line, in_list)
          ELSE LET m == ClozeAt(text, i, end_pos, start_line, in_list)
               IN IF m.answer = << >>
                  THEN parse_clozes_loop(text, PastDropped(text, m), start_line, in_list)
                  ELSE << m >> \o parse_clozes_loop(text, PastCloze(text, m), start_line, in_list)

\* what the loop of parse_clozes drops from position i on: the openers with no
\* closing braces (lines 241-243) and the clozes with an empty answer
\* (lines 275-277), as [kind, start, end]
RECURSIVE DroppedFrom(_, _)
DroppedFrom(text, i) ==
  IF ~(i < Len(text) - 1) THEN << >>
  ELSE IF ~OccursAt(text, << "{", "{" >>, i) THEN DroppedFrom(text, i + 1)
  ELSE LET end_pos == find_closing_braces(text, i)
       IN IF end_pos = NotFound
          THEN << [ kind |-> "unbalanced", start |-> i, end |-> i + 1 ] >>
                 \o DroppedFrom(text, i + 1)
          ELSE LET m == ClozeAt(text, i, end_pos, 0, FALSE)
               IN IF m.answer = << >>
                  THEN << [ kind |-> "empty", start |-> i, end |-> m.end ] >>
                         \o DroppedFrom(text, PastDropped(text, m))
                  ELSE DroppedFrom(text, PastCloze(text, m))

parse_clozes(text, start_line) == parse_clozes_loop(text, 0, start_line, FALSE)

(***************************************************************************)
(* list.sort / sorted: stable, on << key, value >> pairs                   *)
(***************************************************************************)

RECURSIVE InsertByKey(_, _)
InsertByKey(sorted, p) ==
  IF sorted = << >> THEN << p >>
  ELSE IF p[1] < Head(sorted)[1] THEN << p >> \o sorted
  ELSE << Head(sorted) >> \o InsertByKey(Tail(sorted), p)

RECURSIVE SortPairs(_)
SortPairs(pairs) ==
  IF pairs = << >> THEN << >>
  ELSE InsertByKey(SortPairs(SubSeq(pairs, 1, Len(pairs) - 1)), pairs[Len(pairs)])

\* sorted(items, key=...) where keys[k] is the key of items[k]
SortedByKey(items, keys) ==
  LET s == SortPairs([ k \in 1..Len(items) |-> << keys[k], items[k] >> ])
  IN [ k \in 1..Len(items) |-> s[k][2] ]

(***************************************************************************)
(* parser/context_extractor.py                                             *)
(***************************************************************************)

StartsWith(t, p) == OccursAt(t, p, 0)

\* the CardContext of a "> ?" block; explicit is a ghost field of the model
_create_explicit_context(lines, start, end, line_nums) ==
  LET clean_lines == [ k \in 1..Len(lines) |->
                         IF StartsWith(lines[k], << ">" >>) THEN LStrip(Tail(lines[k])) ELSE lines[k] ]
      clean_content == Join(clean_lines, "\n")
      marker == StartsWith(clean_content, << "?" >>)
      lines_removed == IF marker /\ StartsWith(clean_content, << "?", "\n" >>) THEN 1 ELSE 0
  IN [ content |-> IF marker THEN LStrip(Tail(clean_content)) ELSE clean_content,
       full_text |-> Join(lines, "\n"),
       start_line |-> start + lines_removed,
       end_line |-> end,
       line_numbers |-> line_nums,
       explicit |-> TRUE ]

\* the loop of _extract_explicit_contexts from line i (0-based) on; st holds the locals
RECURSIVE _extract_explicit_contexts_loop(_, _, _)
_extract_explicit_contexts_loop(lines, i, st) ==
  IF i >= Len(lines)
  THEN IF st.in_context /\ st.context_lines # << >>
       THEN [ st EXCEPT !.contexts = @ \o << _create_explicit_context(
                          st.context_lines, st.context_start, Len(lines) - 1, st.line_numbers) >> ]
       ELSE st
  ELSE LET line == lines[i + 1]
           next ==
             IF Strip(line) = << ">", " ", "?" >>
             THEN [ st EXCEPT !.in_context = TRUE, !.context_start = i,
                              !.context_lines = << line >>, !.line_numbers = << i >>,
                              !.used_lines = @ \cup { i } ]
             ELSE IF st.in_context
             THEN IF StartsWith(line, << ">" >>)
                  THEN [ st EXCEPT !.context_lines = Append(@, line),
                                   !.line_numbers = Append(@, i),
                                   !.used_lines = @ \cup { i } ]
                  ELSE [ st EXCEPT !.contexts =
                                     IF st.context_lines # << >>
                                     THEN @ \o << _create_explicit_context(
                                            st.context_lines, st.context_start, i - 1, st.line_numbers) >>
                                     ELSE @,
                                   !.in_context = FALSE, !.context_start = 0,
                                   !.context_lines = << >>, !.line_numbers = << >> ]
             ELSE st
       IN _extract_explicit_contexts_loop(lines, i + 1, next)

\* [contexts, used_lines]
_extract_explicit_contexts(markdown_text) ==
  LET st == _extract_explicit_contexts_loop(SplitAll(markdown_text, "\n"), 0,
              [ contexts |-> << >>, used_lines |-> { }, in_context |-> FALSE,
                context_start |-> 0, context_lines |-> << >>, line_numbers |-> << >> ])
  IN [ contexts |-> st.contexts, used_lines |-> st.used_lines ]

\* the paragraphs, each [lines (of [line, i]), start, end]; cur and cur_start are the locals
RECURSIVE ParagraphsLoop(_, _, _, _, _)
ParagraphsLoop(lines, exclude_lines, i, cur, cur_start) ==
  IF i >= Len(lines)
  THEN IF cur # << >> THEN << [ lines |-> cur, start |-> cur_start, end |-> Len(lines) - 1 ] >>
       ELSE << >>
  ELSE LET closed == IF cur # << >>
                     THEN << [ lines |-> cur, start |-> cur_start, end |-> i - 1 ] >> ELSE << >>
       IN IF i \in exclude_lines \/ Strip(lines[i + 1]) = << >>
          THEN closed \o ParagraphsLoop(lines, exclude_lines, i + 1, << >>, cur_start)
          ELSE ParagraphsLoop(lines, exclude_lines, i + 1,
                              Append(cur, [ line |-> lines[i + 1], i |-> i ]),
                              IF cur = << >> THEN i ELSE cur_start)

\* re.compile(r"\{\{.+?\}\}", re.DOTALL).search(content)
ClozePatternSearch(content) ==
  \E a \in 0..(Len(content) - 1) :
    /\ OccursAt(content, << "{", "{" >>, a)
    /\ StrFind(content, << "}", "}" >>, a + 3) # NotFound

RECURSIVE ParagraphContexts(_)
ParagraphContexts(paragraphs) ==
  IF paragraphs = << >> THEN << >>
  ELSE LET p == Head(paragraphs)
           content == Join([ k \in 1..Len(p.lines) |-> p.lines[k].line ], "\n")
       IN (IF ClozePatternSearch(content)
           THEN << [ content |-> content, full_text |-> content,
                     start_line |-> p.start, end_line |-> p.end,
                     line_numbers |-> [ k \in 1..Len(p.lines) |-> p.lines[k].i ],
                     explicit |-> FALSE ] >>
           ELSE << >>) \o ParagraphContexts(Tail(paragraphs))

\* the paragraph contexts when the lines of the "> ?" blocks are not left out
WithBlockLines(markdown_text, exclude_lines) ==
  ParagraphContexts(ParagraphsLoop(SplitAll(markdown_text, "\n"), { }, 0, << >>, 0))

_extract_paragraph_contexts(markdown_text, exclude_lines) ==
  ParagraphContexts(ParagraphsLoop(SplitAll(markdown_text, "\n"), exclude_lines, 0, << >>, 0))

extract_card_contexts(markdown_text) ==
  LET ex == _extract_explicit_contexts(markdown_text)
      contexts == ex.contexts \o _extract_paragraph_contexts(markdown_text, ex.used_lines)
  IN SortedByKey(contexts, [ k \in 1..Len(contexts) |-> contexts[k].start_line ])

(***************************************************************************)
(* parser/prompt_generator.py                                              *)
(*                                                                         *)
(* The groups dict is the sequence of its entries in insertion order.  A   *)
(* key is [named |-> TRUE, id |-> cloze_id] or, for "_individual_<n>",     *)
(* [named |-> FALSE, n |-> n].                                             *)
(***************************************************************************)

\* bool(s) of an Optional[str]
Truthy(o) == ~IsNone(o) /\ Val(o) # << >>

\* the index of the group with this key, 0 when the key is not in the dict
GroupIndex(groups, key) ==
  IF \E g \in 1..Len(groups) : groups[g].group_id = key
  THEN CHOOSE g \in 1..Len(groups) : groups[g].group_id = key
  ELSE 0

\* is_sequence of the ClozeGroup that the first cloze of a group_id creates
GroupIsSequence(cloze) == cloze.cloze_type = "sequence"

RECURSIVE _group_clozes_loop(_, _, _)
_group_clozes_loop(clozes, groups, individual_counter) ==
  IF clozes = << >> THEN groups
  ELSE LET cloze == Head(clozes)
       IN IF Truthy(cloze.cloze_id)
          THEN LET key == [ named |-> TRUE, id |-> Val(cloze.cloze_id), n |-> 0 ]
                   g == GroupIndex(groups, key)
                   withGroup == IF g = 0
                                THEN Append(groups, [ group_id |-> key, clozes |-> << >>,
                                                      is_sequence |-> GroupIsSequence(cloze) ])
                                ELSE groups
                   h == IF g = 0 THEN Len(withGroup) ELSE g
               IN _group_clozes_loop(Tail(clozes),
                     [ withGroup EXCEPT ![h].clozes = Append(@, cloze) ], individual_counter)
          ELSE _group_clozes_loop(Tail(clozes),
                  Append(groups, [ group_id |-> [ named |-> FALSE, id |-> << >>, n |-> individual_counter ],
                                   clozes |-> << cloze >>, is_sequence |-> FALSE ]),
                  individual_counter + 1)

_group_clozes(clozes) == _group_clozes_loop(clozes, << >>, 0)

\* models.ClozeGroup.get_sequence_clozes
get_sequence_clozes(group) ==
  IF ~group.is_sequence THEN group.clozes
  ELSE SortedByKey(group.clozes,
         [ k \in 1..Len(group.clozes) |->
             IF IsNone(group.clozes[k].sequence_order) THEN 0 ELSE Val(group.clozes[k].sequence_order) ])

\* the placeholders "__CLOZE__" and f"__CLOZE_{idx}__", each one atom of a text
Placeholder == << "__CLOZE__" >>
IndexedPlaceholders == << "__CLOZE_0__", "__CLOZE_1__", "__CLOZE_2__", "__CLOZE_3__" >>
IndexedPlaceholder(idx) == << IndexedPlaceholders[idx + 1] >>
Ellipsis == << ".", ".", "." >>

\* scope_resolver.get_paragraph_boundaries: the (start, end) pairs; cur is the open pair or None
RECURSIVE get_paragraph_boundaries_loop(_, _, _)
get_paragraph_boundaries_loop(lines, i, cur) ==
  IF i >= Len(lines) THEN cur
  ELSE IF Strip(lines[i + 1]) # << >>
  THEN get_paragraph_boundaries_loop(lines, i + 1,
         IF cur = << >> THEN << << i, i >> >> ELSE << << cur[1][1], i >> >>)
  ELSE cur \o get_paragraph_boundaries_loop(lines, i + 1, << >>)

get_paragraph_boundaries(text) == get_paragraph_boundaries_loop(SplitAll(text, "\n"), 0, << >>)

\* scope_resolver.resolve_context_scope
resolve_context_scope(text, cloze_line, scope) ==
  LET lines == SplitAll(text, "\n")
      paragraphs == get_paragraph_boundaries(text)
      holding == { i \in 1..Len(paragraphs) :
                     paragraphs[i][1] <= cloze_line /\ cloze_line <= paragraphs[i][2] }
  IN IF paragraphs = << >> \/ holding = { } THEN text
     ELSE LET cloze_para_idx == (CHOOSE i \in holding : \A j \in holding : i <= j) - 1
              start_para == Max(0, cloze_para_idx + scope.before)
              end_para == Min(Len(paragraphs) - 1, cloze_para_idx + scope.after)
              start_line == paragraphs[start_para + 1][1]
              end_line == paragraphs[end_para + 1][2]
          IN Join(SubSeq(lines, start_line + 1, end_line + 1), "\n")

\* next(i for i, gc in enumerate(group_clozes) if hit(gc)), default 0; hits is the set of the i + 1
FirstIndex(hits) == IF hits = { } THEN 0 ELSE (CHOOSE i \in hits : \A j \in hits : i <= j) - 1

\* lines 125-145 and 242-256: the clozes of the context replaced by position, the last start
\* first; replacements[k] is the replacement of clozes[k]
RECURSIVE ReplaceByPosition(_, _, _, _)
ReplaceByPosition(context_text, clozes, replacements, order) ==
  IF order = << >> THEN context_text
  ELSE LET cloze == clozes[Head(order)]
       IN ReplaceByPosition(Slice(context_text, 0, cloze.start) \o replacements[Head(order)]
                              \o Slice(context_text, cloze.end, Len(context_text)),
                            clozes, replacements, Tail(order))

\* sorted(context.cloze_matches, key=lambda c: c.start, reverse=True), as indices
ByStartReversed(clozes) ==
  SortedByKey([ k \in 1..Len(clozes) |-> k ], [ k \in 1..Len(clozes) |-> 0 - clozes[k].start ])

\* lines 127-143: the replacement of one cloze of the context in the prompt of a group
GroupReplacement(cloze, group_clozes) ==
  IF \E g \in 1..Len(group_clozes) : group_clozes[g].start = cloze.start
  THEN IF Len(group_clozes) > 1
       THEN IndexedPlaceholder(FirstIndex({ g \in 1..Len(group_clozes) :
                                             group_clozes[g].start = cloze.start }))
       ELSE Placeholder
  ELSE cloze.answer

\* the loop of _replace_clozes_in_text: re.sub(re.escape(full_text), replacement, count=1)
RECURSIVE _replace_clozes_in_text(_, _, _)
_replace_clozes_in_text(text, all_clozes, group_clozes) ==
  IF all_clozes = << >> THEN text
  ELSE LET cloze == Head(all_clozes)
           same == { g \in 1..Len(group_clozes) : group_clozes[g].full_text = cloze.full_text }
           replacement == IF same # { }
                          THEN IF Len(group_clozes) > 1 THEN IndexedPlaceholder(FirstIndex(same))
                               ELSE Placeholder
                          ELSE cloze.answer
       IN _replace_clozes_in_text(ReplaceFirst(text, cloze.full_text, replacement),
                                  Tail(all_clozes), group_clozes)

\* full_document is not None and the primary cloze's scope is not (0, 0)
NeedsScopeResolution(primary_cloze, full_document) ==
  ~IsNone(full_document) /\ (primary_cloze.scope.before # 0 \/ primary_cloze.scope.after # 0)

\* the Prompt of a non-sequence group; ctx (the index of the card context) is a ghost field
_generate_group_prompt(group, context, full_document, ctx) ==
  LET primary_cloze == group.clozes[1]
      all == context.cloze_matches
      context_text ==
        IF NeedsScopeResolution(primary_cloze, full_document)
        THEN _replace_clozes_in_text(
               resolve_context_scope(Val(full_document), primary_cloze.line_number, primary_cloze.scope),
               all, group.clozes)
        ELSE ReplaceByPosition(context.content, all,
               [ k \in 1..Len(all) |-> GroupReplacement(all[k], group.clozes) ],
               ByStartReversed(all))
  IN [ cloze_match |-> primary_cloze,
       context |-> context_text,
       anki_id |-> primary_cloze.anki_id,
       line_number |-> primary_cloze.line_number,
       group_clozes |-> IF Len(group.clozes) > 1 THEN Some(group.clozes) ELSE None,
       ctx |-> ctx ]

\* lines 243-254 and 291-302: the replacement of one cloze in the prompt of sorted_clozes[i]
SequenceReplacement(cloze, sorted_clozes, i) ==
  IF cloze = sorted_clozes[i] THEN Placeholder
  ELSE IF \E k \in 1..(i - 1) : sorted_clozes[k] = cloze THEN cloze.answer
  ELSE IF \E k \in (i + 1)..Len(sorted_clozes) : sorted_clozes[k] = cloze THEN Ellipsis
  ELSE cloze.answer

\* the loop of _replace_sequence_clozes_in_text
RECURSIVE _replace_sequence_clozes_in_text(_, _, _, _)
_replace_sequence_clozes_in_text(text, all_clozes, sorted_clozes, i) ==
  IF all_clozes = << >> THEN text
  ELSE _replace_sequence_clozes_in_text(
         ReplaceFirst(text, Head(all_clozes).full_text,
                      SequenceReplacement(Head(all_clozes), sorted_clozes, i)),
         Tail(all_clozes), sorted_clozes, i)

_generate_sequence_prompts(group, context, full_document, ctx) ==
  LET sorted_clozes == get_sequence_clozes(group)
      all == context.cloze_matches
  IN [ i \in 1..Len(sorted_clozes) |->
         LET target_cloze == sorted_clozes[i]
             context_text ==
               IF NeedsScopeResolution(target_cloze, full_document)
               THEN _replace_sequence_clozes_in_text(
                      resolve_context_scope(Val(full_document), target_cloze.line_number,
                                            target_cloze.scope),
                      all, sorted_clozes, i)
               ELSE ReplaceByPosition(context.content, all,
                      [ k \in 1..Len(all) |-> SequenceReplacement(all[k], sorted_clozes, i) ],
                      ByStartReversed(all))
         IN [ cloze_match |-> target_cloze,
              context |-> context_text,
              anki_id |-> target_cloze.anki_id,
              line_number |-> target_cloze.line_number,
              group_clozes |-> None,
              ctx |-> ctx ] ]

RECURSIVE GroupPrompts(_, _, _, _)
GroupPrompts(groups, context, full_document, ctx) ==
  IF groups = << >> THEN << >>
  ELSE (IF Head(groups).is_sequence
        THEN _generate_sequence_prompts(Head(groups), context, full_document, ctx)
        ELSE IF Head(groups).clozes = << >> THEN << >>
        ELSE << _generate_group_prompt(Head(groups), context, full_document, ctx) >>)
         \o GroupPrompts(Tail(groups), context, full_document, ctx)

\* generate_prompts(card_context, file_path, full_document) for context number ctx; context
\* is [content, cloze_matches]
generate_prompts(context, full_document, ctx) ==
  IF context.cloze_matches = << >> THEN << >>
  ELSE GroupPrompts(_group_clozes(context.cloze_matches), context, full_document, ctx)

(***************************************************************************)
(* sync/id_writer.py                                                       *)
(***************************************************************************)

RECURSIVE NatToText(_)
NatToText(n) ==
  IF n < 10 THEN << CHOOSE c \in Digits : DigitVal(c) = n >>
  ELSE NatToText(n \div 10) \o << CHOOSE c \in Digits : DigitVal(c) = n % 10 >>

\* str(n)
IntToText(n) == IF n < 0 THEN << "-" >> \o NatToText(0 - n) ELSE NatToText(n)

\* the clozes a prompt hands to the writer
ClozesToUpdate(prompt) ==
  IF ~IsNone(prompt.group_clozes) /\ Val(prompt.group_clozes) # << >>
  THEN Val(prompt.group_clozes) ELSE << prompt.cloze_match >>

\* "Skip if Anki ID already written": the test the writer makes on full_text
AlreadyWritten(cloze) ==
  IF Contains(cloze.full_text, << ">" >>)
  THEN LET head == SplitOnce(cloze.full_text, ">")[1]
           ids_portion == RemoveAll(head, << "{", "{" >>)
       IN Contains(ids_portion, Val(cloze.anki_id))
  ELSE StartsWith(cloze.full_text, << "{", "{" >> \o Val(cloze.anki_id) \o << ">" >>)

\* group(1) of re.match(r"\{\{(?:[^>]+>)?(.+?)\}\}", old_text, re.DOTALL), None for no match
ContentPart(old_text) ==
  IF ~StartsWith(old_text, << "{", "{" >>) THEN None
  ELSE LET gt == StrFind(old_text, << ">" >>, 2)
           withIds == IF gt >= 3 THEN StrFind(old_text, << "}", "}" >>, gt + 2) ELSE NotFound
           without == StrFind(old_text, << "}", "}" >>, 3)
       IN IF withIds # NotFound THEN Some(Slice(old_text, gt + 1, withIds))
          ELSE IF without # NotFound THEN Some(Slice(old_text, 2, without))
          ELSE None

\* group(1) of re.search(r"\}\}(\[-?\d+(?:,\s*-?\d+)?\])$", old_text), << >> for no match
ScopeSuffix(old_text) ==
  LET hits == { i \in 0..(Len(old_text) - 1) :
                  /\ OccursAt(old_text, << "}", "}" >>, i)
                  /\ i + 2 < Len(old_text)
                  /\ ScopeMatchLen(Slice(old_text, i + 2, Len(old_text))) = Len(old_text) - (i + 2) }
  IN IF hits = { } THEN << >>
     ELSE LET i == CHOOSE h \in hits : \A g \in hits : h <= g
          IN Slice(old_text, i + 2, Len(old_text))

\* the IDs part the writer builds for a cloze that has an anki_id
NewIds(cloze) ==
  IF Truthy(cloze.cloze_id) /\ ~IsNone(cloze.sequence_order)
  THEN Val(cloze.cloze_id) \o << "." >> \o IntToText(Val(cloze.sequence_order))
         \o << "," >> \o Val(cloze.anki_id)
  ELSE IF Truthy(cloze.cloze_id) THEN Val(cloze.cloze_id) \o << "," >> \o Val(cloze.anki_id)
  ELSE Val(cloze.anki_id)

\* the (position, old_text, new_text) entries a list of clozes adds to updates
RECURSIVE ClozeUpdates(_)
ClozeUpdates(clozes) ==
  IF clozes = << >> THEN << >>
  ELSE LET cloze == Head(clozes)
           skip == \/ ~Truthy(cloze.anki_id)
                   \/ AlreadyWritten(cloze)
                   \/ IsNone(ContentPart(cloze.full_text))
       IN (IF skip THEN << >>
           ELSE << [ position |-> cloze.start,
                     old_text |-> cloze.full_text,
                     new_text |-> << "{", "{" >> \o NewIds(cloze) \o << ">" >>
                                    \o Val(ContentPart(cloze.full_text)) \o << "}", "}" >>
                                    \o ScopeSuffix(cloze.full_text) ] >>)
            \o ClozeUpdates(Tail(clozes))

RECURSIVE PromptUpdates(_)
PromptUpdates(prompts) ==
  IF prompts = << >> THEN << >>
  ELSE ClozeUpdates(ClozesToUpdate(Head(prompts))) \o PromptUpdates(Tail(prompts))

\* "Apply replacements": one replacement of an update in the evolving content
ApplyUpdate(content, u) == ReplaceFirst(content, u.old_text, u.new_text)

RECURSIVE ApplyUpdates(_, _)
ApplyUpdates(content, updates) ==
  IF updates = << >> THEN content
  ELSE ApplyUpdates(ApplyUpdate(content, Head(updates)), Tail(updates))

\* updates.sort(key=lambda x: x[0], reverse=True)
SortUpdates(updates) ==
  SortedByKey(updates, [ k \in 1..Len(updates) |-> 0 - updates[k].position ])

\* write_ids_to_file: [written, content]; written is FALSE when the file is not touched
write_ids_to_file(content, prompts) ==
  LET updates == PromptUpdates(prompts)
  IN IF updates = << >> THEN [ written |-> FALSE, content |-> content ]
     ELSE [ written |-> TRUE, content |-> ApplyUpdates(content, SortUpdates(updates)) ]

(***************************************************************************)
(* utils/file_id.py                                                        *)
(*                                                                         *)
(* The key "mnmd_file_id:" is one character of the model's alphabet.       *)
(***************************************************************************)

\* the word "mnmd_file_id", one element of a text; it is made of characters of
\* [a-z_] only
FileIdName == "mnmd_file_id"

\* the literal "mnmd_file_id:" of id_pattern
FileIdKey == << FileIdName, ":" >>

\* [a-zA-Z0-9_-]
IdChars == Base52Set \cup Digits \cup { "_", "-", FileIdName }

\* the length of the run of characters of set cs at the head of t
RECURSIVE RunLen(_, _)
RunLen(t, cs) ==
  IF t # << >> /\ Head(t) \in cs THEN 1 + RunLen(Tail(t), cs) ELSE 0

\* the end of the match of r"\s*\n" that starts at position i, greedy; NotFound for none
WsNewlineEnds(t, i) ==
  { e \in (i + 1)..(i + RunLen(Slice(t, i, Len(t)), Whitespace)) : t[e] = "\n" }

\* re.match(r"^---\s*\n(.*?)\n---\s*\n", content, re.DOTALL):
\* None, or Some of [frontmatter (group 1), end (of the whole match)]
FrontmatterMatch(content) ==
  IF ~StartsWith(content, << "-", "-", "-" >>) THEN None
  ELSE LET closers(a) == { b \in a..Len(content) :
                             /\ OccursAt(content, << "\n", "-", "-", "-" >>, b)
                             /\ WsNewlineEnds(content, b + 4) # { } }
           opens == { a \in WsNewlineEnds(content, 3) : closers(a) # { } }
       IN IF opens = { } THEN None
          ELSE LET a == CHOOSE x \in opens : \A y \in opens : y <= x
                   b == CHOOSE x \in closers(a) : \A y \in closers(a) : x <= y
                   ends == WsNewlineEnds(content, b + 4)
               IN Some([ frontmatter |-> Slice(content, a, b),
                         end |-> CHOOSE x \in ends : \A y \in ends : y <= x ])

\* re.search(r"mnmd_file_id:\s*([a-zA-Z0-9_-]+)", frontmatter): Optional group 1
IdSearch(frontmatter) ==
  LET idAt(k) == LET rest == Slice(frontmatter, k + Len(FileIdKey), Len(frontmatter))
                     ws == RunLen(rest, Whitespace)
                 IN Slice(rest, ws, ws + RunLen(Slice(rest, ws, Len(rest)), IdChars))
      hits == { k \in 0..(Len(frontmatter) - 1) :
                  OccursAt(frontmatter, FileIdKey, k) /\ idAt(k) # << >> }
  IN IF hits = { } THEN None
     ELSE Some(idAt(CHOOSE k \in hits : \A j \in hits : k <= j))

\* Optional[str]
extract_file_id(content) ==
  LET m == FrontmatterMatch(content)
  IN IF IsNone(m) THEN None ELSE IdSearch(Val(m).frontmatter)

\* the content ensure_file_id writes when it adds new_id
WithFileId(content, new_id) ==
  LET m == FrontmatterMatch(content)
      id_line == FileIdKey \o << " " >> \o new_id \o << "\n" >>
  IN IF ~IsNone(m)
     THEN << "-", "-", "-", "\n" >> \o Val(m).frontmatter \o << "\n" >> \o id_line
            \o << "-", "-", "-", "\n" >> \o Slice(content, Val(m).end, Len(content))
     ELSE << "-", "-", "-", "\n" >> \o id_line \o << "-", "-", "-", "\n", "\n" >> \o content

\* ensure_file_id on a file that holds content, new_id being what
\* generate_file_id returns: the pair it returns and the content of the file after
ensure_file_id(content, new_id) ==
  LET existing_id == extract_file_id(content)
  IN IF Truthy(existing_id)
     THEN [ file_id |-> Val(existing_id), was_modified |-> FALSE, content |-> content ]
     ELSE [ file_id |-> new_id, was_modified |-> TRUE,
            content |-> WithFileId(content, new_id) ]

\* get_file_tag: the tag "mnmd-file-<file_id>", the prefix being one character
get_file_tag(file_id) == << "mnmd-file-" >> \o file_id

(***************************************************************************)
(* The documents and the remote collections the runs start from            *)
(***************************************************************************)

MaxRuns == 2
MaxFailures == 1
MaxNoteId == 8

\* what generate_file_id may return (one character stands for the 8 random ones)
GeneratedIds == { << "P" >>, << "Q" >> }

\* Config.default_tags
default_tags == { << "mnmd" >> }

FrontMatters ==
  { << >>,
    << "-", "-", "-", "\n" >> \o FileIdKey \o << " ", "A", "\n", "-", "-", "-", "\n" >> }

\* what precedes the first cloze: a paragraph, or the opener of a "> ?" block
Leads == { << "\n" >>, << "\n", ">", " ", "?", "\n", ">", " " >> }

\* what separates two clozes: the same line, or a new paragraph
Separators == { << " " >>, << "\n", "\n" >> }

ClozeTexts ==
  { << "{", "{", "x", "}", "}" >>,
    << "{", "{", "x", "}", "}", "[", "1", "]" >>,
    << "{", "{", "b", ">", "x", "}", "}" >>,
    << "{", "{", "b", "b", ">", "y", "}", "}" >>,
    << "{", "{", NonAsciiLetter, ">", "y", "}", "}" >>,
    << "{", "{", "1", ">", "x", "}", "}" >>,
    << "{", "{", "1", ",", "b", "b", ">", "y", "}", "}" >>,
    << "{", "{", "c", ">", "a", "{", "{", "x", "}", "}", "}", "}" >> }

Bodies ==
  { << "n", "o", "t", "e" >> }
    \cup ClozeTexts
    \cup { c1 \o s \o c2 : c1 \in ClozeTexts, s \in Separators, c2 \in ClozeTexts }

\* a front matter whose mnmd_file_id key has no value
EmptyKeyFrontMatter ==
  << "-", "-", "-", "\n" >> \o FileIdKey \o << "\n", "-", "-", "-", "\n" >>

EmptyKeyBodies ==
  { << "n", "o", "t", "e" >>,
    << "{", "{", "x", "}", "}" >>,
    << "{", "{", "b", ">", "x", "}", "}" >> }

\* a group whose primary carries the code of note 1 and whose other member carries no
\* code, or the code of note 2
CodedGroupBodies ==
  { << "{", "{", "1", ",", "b", ">", "x", "}", "}", " ", "{", "{", "1", ">", "y", "}", "}" >>,
    << "{", "{", "1", ",", "b", ">", "x", "}", "}", " ",
       "{", "{", "1", ",", "c", ">", "y", "}", "}" >> }

Documents ==
  { fm \o l \o b : fm \in FrontMatters, l \in Leads, b \in Bodies }
    \cup { EmptyKeyFrontMatter \o << "\n" >> \o b : b \in EmptyKeyBodies }
    \cup { fm \o << "\n" >> \o b : fm \in FrontMatters, b \in CodedGroupBodies }

TagA == get_file_tag(<< "A" >>)

\* note id -> tags
InitialRemotes ==
  { << >>,
    [ n \in {1, 2} |-> { TagA } ] }

(***************************************************************************)
(* sync/syncer.py: Syncer.sync_file, run after run on one file             *)
(***************************************************************************)

VARIABLES
  file,                   \* the content of the markdown file
  notes,                  \* the remote collection: note id -> set of tags
  hasModel,               \* the remote has the note type "MNMD Cloze"
  nextId,                 \* the id the remote gives to the next note
  pc,                     \* where sync_file stands
  run,                    \* the number of runs started
  file_tag,
  all_prompts,
  idx,                    \* the position of the for loop in all_prompts (1-based)
  current_file_note_ids,
  stats,
  err,                    \* the exception sync_file raised: "none", "api", "conn", "io"
  failures,               \* the number of remote calls that have failed
  trace,                  \* this run's calls, in order: [op, out, id]
  outcomes,               \* this run's result per prompt: [kind, id]
  content_read,           \* the content read at the start of the run (after ensure_file_id)
  found,                  \* Optional: what find_notes returned in this run
  deleted,                \* Optional: what this run passed to delete_notes
  since,                  \* what separates this run from the one before
  edited,                 \* the user edited the file after the last run
  file0,                  \* the content of the file when the run started
  temp,                   \* Optional: the content of the temp file "<path>.tmp"
  cli_files,              \* the sync command: what sync_file does for each file given
  cli_pos,                \* the sync command: the position of its loop over files (1-based)
  cli_exit,               \* the sync command: Optional exit code
  total_stats,            \* the sync command: total_stats
  given_text,             \* the tokenizer alone: its input
  parsed,                 \* the tokenizer alone: Optional, what parse_clozes returned
  given_num,              \* the codec alone: the note id given to encode_base52
  encoded,                \* the codec alone: Optional, what encode_base52 returned
  decoded,                \* the codec alone: Optional, what decode_base52 returned for encoded
  returns,                \* ensure_file_id alone: what each of its calls on the file returned
  given_document,         \* the parser alone: the markdown text given to it
  extracted,              \* the parser alone: Optional, what extract_card_contexts returned
  generated               \* the parser alone: Optional, per context [clozes, groups, prompts]

CliVars == << cli_files, cli_pos, cli_exit, total_stats >>
ParseVars == << given_text, parsed >>
CodecVars == << given_num, encoded, decoded >>
DocVars == << given_document, extracted, generated >>

\* what sync_file has no hand in
FileIdVars == << returns >>
LabVars == << CliVars, ParseVars, CodecVars, FileIdVars, DocVars >>
RestVars == << temp, LabVars >>

SyncVars == << file, notes, hasModel, nextId, pc, run, file_tag, all_prompts, idx,
               current_file_note_ids, stats, err, failures, trace, outcomes,
               content_read, found, deleted, since, edited, file0, temp >>

vars == << SyncVars, LabVars >>

RemoteVars == << notes, hasModel, nextId >>
LoopVars == << all_prompts, idx, current_file_note_ids, stats, outcomes >>
GhostVars == << content_read, found, deleted, since, edited, file0 >>

ZeroStats == [ created |-> 0, updated |-> 0, skipped |-> 0, deleted |-> 0 ]

Call(op, out, id) == [ op |-> op, out |-> out, id |-> id ]

FailureKinds == { "api", "conn" }

MaxOf(S) == IF S = { } THEN 0 ELSE CHOOSE x \in S : \A y \in S : y <= x

\* the sync command, the tokenizer alone and the codec alone, not in use
CliIdle == cli_files = << >> /\ cli_pos = 1 /\ cli_exit = None /\ total_stats = << >>
ParseIdle == given_text = << >> /\ parsed = None
CodecIdle == given_num = 0 /\ encoded = None /\ decoded = None
FileIdIdle == returns = << >>
DocIdle == given_document = << >> /\ extracted = None /\ generated = None

\* sync_file not yet called
SyncStart ==
  /\ hasModel = FALSE
  /\ pc = "idle"
  /\ run = 0
  /\ file_tag = << >>
  /\ all_prompts = << >>
  /\ idx = 1
  /\ current_file_note_ids = { }
  /\ stats = ZeroStats
  /\ err = "none"
  /\ failures = 0
  /\ trace = << >>
  /\ outcomes = << >>
  /\ content_read = << >>
  /\ found = None
  /\ deleted = None
  /\ since = "first"
  /\ edited = FALSE
  /\ file0 = << >>
  /\ temp = None

\* no file and no remote collection
NoSync == file = << >> /\ notes = << >> /\ nextId = 1 /\ SyncStart

Init ==
  /\ file \in Documents
  /\ notes \in InitialRemotes
  /\ hasModel = FALSE
  /\ nextId = MaxOf(DOMAIN notes) + 1
  /\ SyncStart
  /\ CliIdle
  /\ ParseIdle
  /\ CodecIdle
  /\ FileIdIdle
  /\ DocIdle

\* the calls of ensure_note_type_exists, in order
NoteTypeCalls(exists) ==
  IF exists
  THEN << "model_names", "update_model_styling", "model_templates", "update_model_templates" >>
  ELSE << "model_names", "create_model" >>

OkCalls(ops) == [ k \in 1..Len(ops) |-> Call(ops[k], "ok", 0) ]

\* the calls made when the k-th of ops fails
FailedCalls(ops, k, kind) ==
  [ j \in 1..k |-> Call(ops[j], IF j = k THEN kind ELSE "ok", 0) ]

\* the entry of sync_file: what a run starts from
StartRun ==
  /\ pc \in { "idle", "returned", "raised" }
  /\ run < MaxRuns
  /\ run' = run + 1
  /\ since' = IF pc = "idle" THEN "first"
              ELSE IF pc = "raised"
              THEN IF ~edited /\ \E i \in 1..Len(outcomes) : outcomes[i].kind = "created"
                   THEN "aborted with notes created" ELSE "aborted"
              ELSE IF edited THEN "edited" ELSE "unchanged"
  /\ edited' = FALSE
  /\ file_tag' = << >>
  /\ all_prompts' = << >>
  /\ idx' = 1
  /\ current_file_note_ids' = { }
  /\ stats' = ZeroStats
  /\ outcomes' = << >>
  /\ content_read' = << >>
  /\ found' = None
  /\ deleted' = None
  /\ file0' = file
  /\ UNCHANGED << file, notes, nextId, temp >>

\* line 53: ensure_note_type_exists(self.client) returns
EnsureNoteType ==
  /\ StartRun
  /\ trace' = OkCalls(NoteTypeCalls(hasModel))
  /\ hasModel' = TRUE
  /\ pc' = "file_id"
  /\ err' = "none"
  /\ UNCHANGED failures
  /\ UNCHANGED LabVars

\* line 53: a call of ensure_note_type_exists raises, and so does sync_file
EnsureNoteTypeRaises ==
  /\ StartRun
  /\ failures < MaxFailures
  /\ \E k \in 1..Len(NoteTypeCalls(hasModel)), kind \in FailureKinds :
       /\ trace' = FailedCalls(NoteTypeCalls(hasModel), k, kind)
       /\ err' = kind
  /\ failures' = failures + 1
  /\ pc' = "raised"
  /\ UNCHANGED hasModel
  /\ UNCHANGED LabVars

\* the tag made without the fix-up: ensure_file_id is not called, an id is made up
TagWithoutFixUp ==
  /\ pc = "file_id"
  /\ LET existing_id == extract_file_id(file)
     IN IF Truthy(existing_id)
        THEN file_tag' = get_file_tag(Val(existing_id))
        ELSE \E new_id \in GeneratedIds : file_tag' = get_file_tag(new_id)
  /\ pc' = "read"
  /\ UNCHANGED << file, trace, RemoteVars, run, LoopVars, err, failures, GhostVars >>
  /\ UNCHANGED RestVars

\* lines 56-57: ensure_file_id(file_path) and get_file_tag
\* file_id.py lines 112-116, id_writer.py lines 98-102: the steps of the write
\* that can raise
WritePoints == { "open", "write", "replace" }

\* the temp file at the moment the step raised: open() made no file, a write
\* that raised left a part of the content, a replace that raised left all of it
TempWhenRaised(old_temp, updated_content, point) ==
  IF point = "open" THEN old_temp
  ELSE IF point = "write"
       THEN Some(Slice(updated_content, 0, Len(updated_content) \div 2))
       ELSE Some(updated_content)

\* the temp file is left where the step raised
KeepTemp(temp_file) == temp_file

\* file_id.py lines 117-121, id_writer.py lines 103-106: the except block
\* unlinks the temp file if it exists
RemoveTemp(temp_file) == None

\* file_id.py lines 107-122: the write of the file with its new id raises
EnsureFileIdRaises ==
  /\ pc = "file_id"
  /\ failures < MaxFailures
  /\ ~Truthy(extract_file_id(file))
  /\ \E new_id \in GeneratedIds, point \in WritePoints :
       temp' = RemoveTemp(TempWhenRaised(temp, WithFileId(file, new_id), point))
  /\ trace' = Append(trace, Call("ensure_file_id", "io", 0))
  /\ failures' = failures + 1
  /\ err' = "io"
  /\ pc' = "raised"
  /\ UNCHANGED << RemoteVars, file, run, file_tag, LoopVars, GhostVars, LabVars >>

EnsureFileId ==
  /\ pc = "file_id"
  /\ \E new_id \in GeneratedIds :
       LET r == ensure_file_id(file, new_id)
       IN /\ file' = r.content
          /\ file_tag' = get_file_tag(r.file_id)
          /\ trace' = Append(trace, Call("ensure_file_id",
                                        IF r.was_modified THEN "written" ELSE "kept", 0))
  /\ pc' = "read"
  /\ UNCHANGED << RemoteVars, run, LoopVars, err, failures, GhostVars >>
  /\ temp' = None
  /\ UNCHANGED LabVars

\* lines 73-81: the prompts of contexts k.. of the list; line 77 sets cloze_matches
RECURSIVE ContextPrompts(_, _, _)
ContextPrompts(contexts, k, full_document) ==
  IF k > Len(contexts) THEN << >>
  ELSE generate_prompts([ content |-> contexts[k].content,
                          cloze_matches |-> parse_clozes(contexts[k].content, contexts[k].start_line) ],
                        full_document, k)
         \o ContextPrompts(contexts, k + 1, full_document)

\* lines 63-85: all_prompts for a content; line 80 passes no full_document
AllPrompts(content) == ContextPrompts(extract_card_contexts(content), 1, None)

\* lines 62-91: read, extract, tokenize, generate; return early without prompts
ReadAndParse ==
  /\ pc = "read"
  /\ content_read' = file
  /\ all_prompts' = AllPrompts(file)
  /\ pc' = IF all_prompts' = << >> THEN "returned" ELSE "prompts"
  /\ UNCHANGED << file, RemoteVars, run, file_tag, idx, current_file_note_ids, stats,
                  err, failures, trace, outcomes, found, deleted, since, edited >>
  /\ UNCHANGED << file0, RestVars >>

\* the prompt the for loop of line 93 stands at
CurrentPrompt == all_prompts[idx]

\* lines 106-114: Optional note id decoded from prompt.anki_id
DecodedId(prompt) ==
  IF Truthy(prompt.anki_id) THEN decode_base52(Val(prompt.anki_id)) ELSE None

\* line 117: notes_info reports the note
NoteExists(id) == id \in DOMAIN notes

\* the calls up to line 117 that lead to "Create new note"
LookupCalls(prompt) ==
  IF IsNone(DecodedId(prompt)) THEN << >>
  ELSE << Call("notes_info", "ok", Val(DecodedId(prompt))) >>

\* the loop left after one prompt, whatever prompts remain
LeaveLoop ==
  /\ idx' = idx + 1
  /\ pc' = "sweep"

\* the loop moves to the next prompt, or leaves for the orphan sweep
Advance ==
  /\ idx' = idx + 1
  /\ pc' = IF idx + 1 > Len(all_prompts) THEN "sweep" ELSE "prompts"

\* lines 141-146: the new code set on the primary cloze and on every cloze of the group
WithAnkiId(prompt, code) ==
  [ prompt EXCEPT !.cloze_match.anki_id = Some(code),
                  !.group_clozes =
                     IF IsNone(@) THEN @
                     ELSE Some([ k \in 1..Len(Val(@)) |-> [ Val(@)[k] EXCEPT !.anki_id = Some(code) ] ]) ]

\* lines 116-125: the note exists; update its fields, add the file tag
UpdateNote ==
  /\ pc = "prompts"
  /\ ~IsNone(DecodedId(CurrentPrompt))
  /\ LET id == Val(DecodedId(CurrentPrompt))
     IN /\ NoteExists(id)
        /\ trace' = trace \o << Call("notes_info", "ok", id),
                                Call("update_note_fields", "ok", id),
                                Call("add_tags", "ok", id) >>
        /\ notes' = [ notes EXCEPT ![id] = @ \cup { file_tag } ]
        /\ current_file_note_ids' = current_file_note_ids \cup { id }
        /\ outcomes' = Append(outcomes, [ kind |-> "updated", id |-> id ])
  /\ stats' = [ stats EXCEPT !.updated = @ + 1 ]
  /\ Advance
  /\ UNCHANGED << file, hasModel, nextId, run, file_tag, all_prompts, err, failures, GhostVars >>
  /\ UNCHANGED RestVars

\* lines 116-121: notes_info, update_note_fields or add_tags raises; nothing catches it
UpdateRaises ==
  /\ pc = "prompts"
  /\ failures < MaxFailures
  /\ ~IsNone(DecodedId(CurrentPrompt))
  /\ LET id == Val(DecodedId(CurrentPrompt))
         ops == << "notes_info", "update_note_fields", "add_tags" >>
     IN \E k \in 1..3, kind \in FailureKinds :
          /\ k > 1 => NoteExists(id)
          /\ trace' = trace \o [ j \in 1..k |-> Call(ops[j], IF j = k THEN kind ELSE "ok", id) ]
          /\ err' = kind
  /\ failures' = failures + 1
  /\ pc' = "raised"
  /\ UNCHANGED << file, RemoteVars, run, file_tag, LoopVars, GhostVars >>
  /\ UNCHANGED RestVars

\* the prompt has no code, a code that does not decode, or a code of no remote note
FallsToCreate(prompt) ==
  IF IsNone(DecodedId(prompt)) THEN TRUE ELSE ~NoteExists(Val(DecodedId(prompt)))

\* the prompt is given the default tags only
WithoutFileTag(tag) == default_tags

\* line 100: prompt.tags = self.config.default_tags + [file_tag]
prompt_tags(tag) == default_tags \cup { tag }

\* lines 127-148: add_note returns the id of the new note
CreateNote ==
  /\ pc = "prompts"
  /\ FallsToCreate(CurrentPrompt)
  /\ nextId <= MaxNoteId
  /\ trace' = trace \o LookupCalls(CurrentPrompt) \o << Call("add_note", "ok", nextId) >>
  /\ notes' = [ n \in DOMAIN notes \cup { nextId } |->
                  IF n = nextId THEN prompt_tags(file_tag) ELSE notes[n] ]
  /\ nextId' = nextId + 1
  /\ current_file_note_ids' = current_file_note_ids \cup { nextId }
  /\ all_prompts' = [ all_prompts EXCEPT ![idx] = WithAnkiId(@, encode_base52(nextId)) ]
  /\ outcomes' = Append(outcomes, [ kind |-> "created", id |-> nextId ])
  /\ stats' = [ stats EXCEPT !.created = @ + 1 ]
  /\ Advance
  /\ UNCHANGED << file, hasModel, run, file_tag, err, failures, GhostVars >>
  /\ UNCHANGED RestVars

\* lines 149-151: add_note raises; "except Exception" counts the prompt as skipped
CreateFails ==
  /\ pc = "prompts"
  /\ failures < MaxFailures
  /\ FallsToCreate(CurrentPrompt)
  /\ \E kind \in FailureKinds :
       trace' = trace \o LookupCalls(CurrentPrompt) \o << Call("add_note", kind, 0) >>
  /\ failures' = failures + 1
  /\ outcomes' = Append(outcomes, [ kind |-> "skipped", id |-> 0 ])
  /\ stats' = [ stats EXCEPT !.skipped = @ + 1 ]
  /\ Advance
  /\ UNCHANGED << file, RemoteVars, run, file_tag, all_prompts, current_file_note_ids,
                  err, GhostVars >>
  /\ UNCHANGED RestVars

\* what find_notes("tag:<file_tag>") returns
FindNotes(tag) == { n \in DOMAIN notes : tag \in notes[n] }

\* the sweep without its filter: every note the tag query returned
EveryTaggedNoteId(anki_file_note_ids, seen) == anki_file_note_ids

\* lines 159-161: orphaned_note_ids
OrphanedNoteIds(anki_file_note_ids, seen) == anki_file_note_ids \ seen

\* lines 155-168: the sweep finds the tagged notes and deletes the orphans
Sweep ==
  /\ pc = "sweep"
  /\ LET anki_file_note_ids == FindNotes(file_tag)
         orphaned_note_ids == OrphanedNoteIds(anki_file_note_ids, current_file_note_ids)
     IN /\ found' = Some(anki_file_note_ids)
        /\ IF orphaned_note_ids # { }
           THEN /\ trace' = trace \o << Call("find_notes", "ok", 0), Call("delete_notes", "ok", 0) >>
                /\ deleted' = Some(orphaned_note_ids)
                /\ notes' = [ n \in DOMAIN notes \ orphaned_note_ids |-> notes[n] ]
                /\ stats' = [ stats EXCEPT !.deleted = Cardinality(orphaned_note_ids) ]
           ELSE /\ trace' = Append(trace, Call("find_notes", "ok", 0))
                /\ UNCHANGED << deleted, notes, stats >>
  /\ pc' = "write"
  /\ UNCHANGED << file, hasModel, nextId, run, file_tag, all_prompts, idx,
                  current_file_note_ids, err, failures, outcomes, content_read, since, edited >>
  /\ UNCHANGED << file0, RestVars >>

\* the sweep without its try: a failing find_notes or delete_notes leaves sync_file
SweepRaises ==
  /\ pc = "sweep"
  /\ failures < MaxFailures
  /\ \E kind \in FailureKinds :
       /\ trace' = Append(trace, Call("find_notes", kind, 0))
       /\ err' = kind
  /\ failures' = failures + 1
  /\ pc' = "raised"
  /\ UNCHANGED << file, RemoteVars, run, file_tag, LoopVars, GhostVars >>
  /\ UNCHANGED RestVars

\* lines 169-170: find_notes or delete_notes raises; the sweep is given up with a warning
SweepFails ==
  /\ pc = "sweep"
  /\ failures < MaxFailures
  /\ LET anki_file_note_ids == FindNotes(file_tag)
         orphaned_note_ids == OrphanedNoteIds(anki_file_note_ids, current_file_note_ids)
     IN \E kind \in FailureKinds :
          \/ /\ trace' = Append(trace, Call("find_notes", kind, 0))
             /\ UNCHANGED << found, deleted >>
          \/ /\ orphaned_note_ids # { }
             /\ trace' = trace \o << Call("find_notes", "ok", 0), Call("delete_notes", kind, 0) >>
             /\ found' = Some(anki_file_note_ids)
             /\ deleted' = Some(orphaned_note_ids)
  /\ failures' = failures + 1
  /\ pc' = "write"
  /\ UNCHANGED << file, RemoteVars, run, file_tag, LoopVars, err, content_read, since, edited >>
  /\ UNCHANGED << file0, RestVars >>

\* lines 172-183: write_ids_to_file, then return stats
WriteIds ==
  /\ pc = "write"
  /\ LET w == write_ids_to_file(file, all_prompts)
     IN /\ file' = w.content
        /\ trace' = Append(trace, Call("write_ids_to_file", IF w.written THEN "written" ELSE "kept", 0))
  /\ pc' = "returned"
  /\ UNCHANGED << RemoteVars, run, file_tag, LoopVars, err, failures, GhostVars >>
  /\ temp' = None
  /\ UNCHANGED LabVars

\* id_writer.py lines 94-106: the write of the updated content raises
WriteIdsRaises ==
  /\ pc = "write"
  /\ failures < MaxFailures
  /\ LET w == write_ids_to_file(file, all_prompts)
     IN /\ w.written
        /\ \E point \in WritePoints :
             temp' = RemoveTemp(TempWhenRaised(temp, w.content, point))
  /\ trace' = Append(trace, Call("write_ids_to_file", "io", 0))
  /\ failures' = failures + 1
  /\ err' = "io"
  /\ pc' = "raised"
  /\ UNCHANGED << RemoteVars, file, run, file_tag, LoopVars, GhostVars, LabVars >>

\* the position of the last "{{" of t, NotFound for none
LastOpener(t) ==
  LET hits == { i \in 0..(Len(t) - 1) : OccursAt(t, << "{", "{" >>, i) }
  IN IF hits = { } THEN NotFound ELSE MaxOf(hits)

\* between two runs the user deletes the end of the file, from its last "{{" on
UserEdit ==
  /\ pc = "returned"
  /\ run < MaxRuns
  /\ ~edited
  /\ LastOpener(file) # NotFound
  /\ file' = Slice(file, 0, LastOpener(file))
  /\ edited' = TRUE
  /\ UNCHANGED << RemoteVars, pc, run, file_tag, LoopVars, err, failures, trace,
                  content_read, found, deleted, since >>
  /\ UNCHANGED << file0, RestVars >>

Next ==
  \/ EnsureNoteType
  \/ EnsureNoteTypeRaises
  \/ EnsureFileId
  \/ EnsureFileIdRaises
  \/ ReadAndParse
  \/ UpdateNote
  \/ UpdateRaises
  \/ CreateNote
  \/ CreateFails
  \/ Sweep
  \/ SweepFails
  \/ WriteIds
  \/ WriteIdsRaises
  \/ UserEdit

Spec == Init /\ [][Next]_vars

(***************************************************************************)
(* cli.py: the sync command, given several files                           *)
(***************************************************************************)

MaxFiles == 3

\* the exception sync_file raises for a file, or "none"; any kind is caught by
\* "except Exception" at line 186
RaiseKinds == { "conn", "io" }

\* what sync_file does when called for a file: it returns its stats or raises
FileOutcomes ==
  { [ raises |-> "none", stats |-> st ] :
      st \in { [ created |-> 1, updated |-> 0, skipped |-> 0, deleted |-> 0 ],
               [ created |-> 0, updated |-> 1, skipped |-> 1, deleted |-> 1 ] } }
    \cup { [ raises |-> kind, stats |-> ZeroStats ] : kind \in RaiseKinds }

\* the sequences over S of length 1..n
RECURSIVE SeqsUpTo(_, _)
SeqsUpTo(S, n) ==
  IF n = 0 THEN { }
  ELSE { << x >> : x \in S }
         \cup { Append(q, x) : q \in SeqsUpTo(S, n - 1), x \in S }

\* line 179: total_stats = {"created": 0, "updated": 0, "skipped": 0}
ZeroTotals == [ created |-> 0, updated |-> 0, skipped |-> 0 ]

InitCli ==
  /\ NoSync
  /\ cli_files \in SeqsUpTo(FileOutcomes, MaxFiles)
  /\ cli_pos = 1
  /\ cli_exit = None
  /\ total_stats = ZeroTotals
  /\ ParseIdle
  /\ CodecIdle
  /\ FileIdIdle
  /\ DocIdle

\* lines 181-185: sync_file returns for the file at cli_pos, its stats are added
CliSyncReturns ==
  /\ IsNone(cli_exit)
  /\ cli_pos <= Len(cli_files)
  /\ cli_files[cli_pos].raises = "none"
  /\ total_stats' = [ key \in DOMAIN total_stats |->
                        total_stats[key] + cli_files[cli_pos].stats[key] ]
  /\ cli_pos' = cli_pos + 1
  /\ UNCHANGED << SyncVars, DocVars, cli_files, cli_exit, ParseVars, CodecVars, FileIdVars >>

\* lines 186-188: sync_file raises for the file at cli_pos; raise typer.Exit(1)
CliSyncRaises ==
  /\ IsNone(cli_exit)
  /\ cli_pos <= Len(cli_files)
  /\ cli_files[cli_pos].raises # "none"
  /\ cli_exit' = Some(1)
  /\ cli_pos' = cli_pos + 1
  /\ UNCHANGED << SyncVars, DocVars, cli_files, total_stats, ParseVars, CodecVars, FileIdVars >>

\* lines 190-196: the loop is over, the summary is printed, the command returns
CliSummary ==
  /\ IsNone(cli_exit)
  /\ cli_pos > Len(cli_files)
  /\ cli_exit' = Some(0)
  /\ UNCHANGED << SyncVars, DocVars, cli_files, cli_pos, total_stats, ParseVars, CodecVars,
                  FileIdVars >>

NextCli ==
  \/ CliSyncReturns
  \/ CliSyncRaises
  \/ CliSummary

SpecCli == InitCli /\ [][NextCli]_vars

\* the number of calls of sync_file the command has made
SyncFileCalls == cli_pos - 1

(***************************************************************************)
(* parser/cloze_parser.py: parse_clozes alone, on every text made of a few *)
(* pieces                                                                  *)
(***************************************************************************)

MaxPieces == 5

\* what the texts are made of
Pieces ==
  { << "{", "{" >>, << "}", "}" >>, << "{" >>, << "}" >>, << "x" >>, << "|" >>,
    << "[", "1", "]" >>, << "{", "{", "x", "}", "}" >> }

\* the texts made of 1..n pieces
RECURSIVE TextsOf(_)
TextsOf(n) ==
  IF n = 0 THEN { }
  ELSE Pieces \cup { t \o q : t \in TextsOf(n - 1), q \in Pieces }

ParseInputs == { << >> } \cup TextsOf(MaxPieces)

\* the start_line arguments
StartLines == { 0, 1 }

InitParse ==
  /\ NoSync
  /\ given_text \in ParseInputs
  /\ parsed = None
  /\ CliIdle
  /\ CodecIdle
  /\ FileIdIdle
  /\ DocIdle

\* parse_clozes(text, start_line) returns
Tokenize ==
  /\ IsNone(parsed)
  /\ \E start_line \in StartLines :
       parsed' = Some(parse_clozes(given_text, start_line))
  /\ UNCHANGED << SyncVars, DocVars, given_text, CliVars, CodecVars, FileIdVars >>

NextParse == Tokenize

SpecParse == InitParse /\ [][NextParse]_vars

\* the cloze that opens at position p of text, when it has closing braces
OpensAt(text, p) ==
  /\ OccursAt(text, << "{", "{" >>, p)
  /\ find_closing_braces(text, p) # NotFound

\* a cloze with closing braces and an answer opens at position p of text
WellFormedAt(text, p) ==
  /\ OpensAt(text, p)
  /\ ClozeAt(text, p, find_closing_braces(text, p), 0, FALSE).answer # << >>

(***************************************************************************)
(* utils/base52.py: encode_base52 and decode_base52 alone                  *)
(***************************************************************************)

\* the numbers 0..MaxNum have the codes of one, two and three letters
MaxNum == 2759

\* the example of the docstring of encode_base52
DocExample == 1234567890

CodecInputs == 0..MaxNum \cup { DocExample }

InitCodec ==
  /\ NoSync
  /\ given_num \in CodecInputs
  /\ encoded = None
  /\ decoded = None
  /\ CliIdle
  /\ ParseIdle
  /\ FileIdIdle
  /\ DocIdle

\* encode_base52(num) returns
Encode ==
  /\ IsNone(encoded)
  /\ encoded' = Some(encode_base52(given_num))
  /\ UNCHANGED << SyncVars, DocVars, given_num, decoded, CliVars, ParseVars, FileIdVars >>

\* decode_base52(s) returns or raises, for the s that encode_base52 returned
Decode ==
  /\ ~IsNone(encoded)
  /\ IsNone(decoded)
  /\ decoded' = Some(decode_base52(Val(encoded)))
  /\ UNCHANGED << SyncVars, DocVars, given_num, encoded, CliVars, ParseVars, FileIdVars >>

NextCodec ==
  \/ Encode
  \/ Decode

SpecCodec == InitCodec /\ [][NextCodec]_vars

(***************************************************************************)
(* utils/file_id.py: ensure_file_id alone, called again and again on a     *)
(* file                                                                    *)
(***************************************************************************)

MaxCalls == 3

\* the lines a front matter is made of: an id, the key with no value, the key
\* with a blank value, another key
FrontMatterLines ==
  { FileIdKey \o << " ", "A" >>,
    FileIdKey,
    FileIdKey \o << " " >>,
    << "t", ":", " ", "u" >> }

FrontMatterOf(lines) ==
  << "-", "-", "-", "\n" >> \o Join(lines, "\n") \o << "\n", "-", "-", "-", "\n" >>

FileIdInputs ==
  { fm \o b :
      fm \in { << >> }
               \cup { FrontMatterOf(<< l >>) : l \in FrontMatterLines }
               \cup { FrontMatterOf(<< l, m >>) : l \in FrontMatterLines, m \in FrontMatterLines },
      b \in { << "n", "o", "t", "e" >>, << "\n", "{", "{", "x", "}", "}" >> } }

InitFileId ==
  /\ file \in FileIdInputs
  /\ notes = << >>
  /\ nextId = 1
  /\ SyncStart
  /\ returns = << >>
  /\ CliIdle
  /\ ParseIdle
  /\ CodecIdle
  /\ DocIdle

\* one call of ensure_file_id(file_path)
CallEnsureFileId ==
  /\ Len(returns) < MaxCalls
  /\ \E new_id \in GeneratedIds :
       LET r == ensure_file_id(file, new_id)
       IN /\ file' = r.content
          /\ returns' = Append(returns, [ file_id |-> r.file_id,
                                          was_modified |-> r.was_modified,
                                          before |-> file ])
  /\ UNCHANGED << notes, hasModel, nextId, pc, run, file_tag, LoopVars, err, failures,
                  trace, GhostVars, temp, CliVars, ParseVars, CodecVars, DocVars >>

NextFileId == CallEnsureFileId

SpecFileId == InitFileId /\ [][NextFileId]_vars

(***************************************************************************)
(* The parser alone: extract_card_contexts on a document, then, as lines   *)
(* 73-81 of sync_file do for each context, parse_clozes and                *)
(* generate_prompts, with or without the document as full_document.        *)
(***************************************************************************)

MaxMembers == 3
MaxLines == 4

\* the clozes the one-paragraph documents are made of
Members ==
  { << "{", "{", "1", ".", "1", ">", "a", "}", "}" >>,
    << "{", "{", "1", ".", "2", ">", "b", "}", "}" >>,
    << "{", "{", "1", ".", "3", ">", "c", "}", "}" >>,
    << "{", "{", "1", ">", "d", "}", "}" >>,
    << "{", "{", "2", ">", "e", "}", "}" >>,
    << "{", "{", "f", "}", "}" >> }

\* the paragraphs of 1..n clozes, a space between two
RECURSIVE ParagraphsOf(_)
ParagraphsOf(n) ==
  IF n = 0 THEN { }
  ELSE Members \cup { t \o << " " >> \o q : t \in ParagraphsOf(n - 1), q \in Members }

\* the lines the many-line documents are made of
DocLines ==
  { << ">", " ", "?" >>, << ">", " ", "{", "{", "x", "}", "}" >>, << ">" >>,
    << "{", "{", "y", "}", "}" >>, << >>, << "z" >> }

\* the documents of 1..n lines
RECURSIVE LinesOf(_)
LinesOf(n) ==
  IF n = 0 THEN { }
  ELSE DocLines \cup { t \o << "\n" >> \o q : t \in LinesOf(n - 1), q \in DocLines }

DocInputs == ParagraphsOf(MaxMembers) \cup LinesOf(MaxLines)

InitDoc ==
  /\ NoSync
  /\ given_document \in DocInputs
  /\ extracted = None
  /\ generated = None
  /\ CliIdle
  /\ ParseIdle
  /\ CodecIdle
  /\ FileIdIdle

\* extract_card_contexts(markdown_text) returns
ExtractContexts ==
  /\ IsNone(extracted)
  /\ extracted' = Some(extract_card_contexts(given_document))
  /\ UNCHANGED << SyncVars, given_document, generated, CliVars, ParseVars, CodecVars, FileIdVars >>

\* syncer.py lines 76-81 for one context, full_document as the caller chooses
ContextGenerated(context, full_document, k) ==
  LET clozes == parse_clozes(context.content, context.start_line)
  IN [ clozes |-> clozes,
       groups |-> _group_clozes(clozes),
       prompts |-> generate_prompts([ content |-> context.content, cloze_matches |-> clozes ],
                                    full_document, k) ]

\* parse_clozes and generate_prompts return for every context
GeneratePrompts ==
  /\ ~IsNone(extracted)
  /\ IsNone(generated)
  /\ \E full_document \in { None, Some(given_document) } :
       generated' = Some([ k \in 1..Len(Val(extracted)) |->
                            ContextGenerated(Val(extracted)[k], full_document, k) ])
  /\ UNCHANGED << SyncVars, given_document, extracted, CliVars, ParseVars, CodecVars, FileIdVars >>

NextDoc == ExtractContexts \/ GeneratePrompts

SpecDoc == InitDoc /\ [][NextDoc]_vars

(***************************************************************************)
(* What a run did, read from its calls, its results and the file           *)
(***************************************************************************)

\* the remote calls of ensure_note_type_exists
NoteTypeOps ==
  { "model_names", "create_model", "update_model_styling", "model_templates",
    "update_model_templates" }

\* the remote calls about notes
NoteOps ==
  { "notes_info", "update_note_fields", "add_tags", "add_note", "find_notes", "delete_notes" }

\* the positions of this run's calls of op
CallsOf(op) == { k \in 1..Len(trace) : trace[k].op = op }

\* the run returned through write_ids_to_file and the file is as the run left it
Rewritten ==
  /\ pc = "returned"
  /\ ~edited
  /\ trace # << >>
  /\ trace[Len(trace)].op = "write_ids_to_file"

\* the clozes of a whole file content, in the order of the file
FileClozes(content) == parse_clozes(content, 1)

\* << i, j >>: the j-th cloze that prompt i hands to the writer
PromptClozeIds ==
  UNION { { << i, j >> : j \in 1..Len(ClozesToUpdate(all_prompts[i])) } : i \in 1..Len(all_prompts) }

ClozeOf(p) == ClozesToUpdate(all_prompts[p[1]])[p[2]]

\* the rank in the file of the cloze at offset start of context ctx
OrdinalAt(ctx, start) ==
  1 + Cardinality({ q \in PromptClozeIds :
                      \/ all_prompts[q[1]].ctx < ctx
                      \/ all_prompts[q[1]].ctx = ctx /\ ClozeOf(q).start < start })

Ordinal(p) == OrdinalAt(all_prompts[p[1]].ctx, ClozeOf(p).start)

\* the clozes of the prompts are the clozes of the file that was read, rank by rank
Aligned ==
  /\ Len(FileClozes(content_read)) = Cardinality(PromptClozeIds)
  /\ \A p \in PromptClozeIds :
       FileClozes(content_read)[Ordinal(p)].full_text = ClozeOf(p).full_text

\* the code a cloze text carries, as the tokenizer reads it
WrittenCode(full_text) == FileClozes(full_text)[1].anki_id

\* the entries of the IDs part of a cloze text
IdEntries(full_text) ==
  IF ~Contains(full_text, << ">" >>) THEN { }
  ELSE LET parts == SplitAll(RemoveAll(SplitOnce(full_text, ">")[1], << "{", "{" >>), ",")
       IN { Strip(parts[k]) : k \in 1..Len(parts) }

\* the run gave the cloze a code that its text does not carry
NeedsCode(cloze) == Truthy(cloze.anki_id) /\ cloze.anki_id # WrittenCode(cloze.full_text)

\* the text between cloze j and the next one (j = 0: before the first cloze)
Gap(content, clozes, j) ==
  Slice(content,
        IF j = 0 THEN 0 ELSE clozes[j].end,
        IF j = Len(clozes) THEN Len(content) ELSE clozes[j + 1].start)

(***************************************************************************)
(* Claims                                                                  *)
(***************************************************************************)

\* C1: when sync_file has returned and runs again, the file and the remote
\* untouched in between and no remote call having failed, the second run calls
\* add_note zero times and delete_notes zero times and takes every prompt
\* through the update path.
C1_SecondRunOnlyUpdates ==
  (pc = "returned" /\ run >= 2 /\ since = "unchanged" /\ ~edited /\ failures = 0) =>
     /\ CallsOf("add_note") = { }
     /\ CallsOf("delete_notes") = { }
     /\ stats.updated = Len(all_prompts)
     /\ \A i \in 1..Len(outcomes) : outcomes[i].kind = "updated"

\* C2: when sync_file has returned and no call of the sweep has failed, every
\* remote note that carries the file's tag is in the seen set of the run; a file
\* without prompts included.
C2_NoTaggedNoteOutsideSeen ==
  (/\ pc = "returned"
   /\ \A k \in CallsOf("find_notes") \cup CallsOf("delete_notes") : trace[k].out = "ok") =>
     \A n \in DOMAIN notes : file_tag \in notes[n] => n \in current_file_note_ids

\* C3: the ids passed to delete_notes are the ids the tag query returned that
\* are not in the seen set; no note created or updated in the run is among them,
\* and none that the tag query did not return.
C3_DeletesExactlyUnseenTagged ==
  ~IsNone(deleted) =>
     /\ ~IsNone(found)
     /\ Val(deleted) = { n \in Val(found) : n \notin current_file_note_ids }
     /\ \A i \in 1..Len(outcomes) :
          outcomes[i].kind \in { "created", "updated" } => outcomes[i].id \notin Val(deleted)
     /\ \A k \in CallsOf("delete_notes") :
          trace[k].out = "ok" =>
            /\ DOMAIN notes \cap Val(deleted) = { }
            /\ \A i \in 1..Len(outcomes) :
                 outcomes[i].kind \in { "created", "updated" } => outcomes[i].id \in DOMAIN notes

\* C3 witness: after an edit that removed a cloze, the run updated a tagged note
\* and deleted another one.
C3_Witness ==
  /\ pc = "returned"
  /\ since = "edited"
  /\ stats.updated >= 1
  /\ ~IsNone(deleted)
  /\ Val(deleted) # { }
  /\ Val(found) \cap current_file_note_ids # { }
  /\ \A k \in CallsOf("delete_notes") : trace[k].out = "ok"

\* C4: write_ids_to_file changes nothing but the text of the clozes that
\* receive a new code: the file keeps its clozes, every character outside the
\* clozes is unchanged, and a cloze whose text changed is one that the run gave
\* a code it did not carry (so with no such cloze the file is identical).
C4_RewriteChangesOnlyCodedClozes ==
  (Rewritten /\ Aligned) =>
     LET before == FileClozes(content_read)
         after == FileClozes(file)
     IN /\ Len(after) = Len(before)
        /\ \A j \in 0..Len(before) : Gap(file, after, j) = Gap(content_read, before, j)
        /\ \A p \in PromptClozeIds :
             after[Ordinal(p)].full_text # before[Ordinal(p)].full_text => NeedsCode(ClozeOf(p))

\* C5: for a prompt whose primary cloze carries the code of a note the remote
\* has, the run calls update_note_fields and add_tags for that note, has the note
\* in the seen set, calls add_note for the other prompts only, and leaves the text
\* of that cloze in the file as it was.
C5_UpdatePathKeepsCloze ==
  (Rewritten /\ Aligned) =>
     \A i \in 1..Len(outcomes) :
        outcomes[i].kind = "updated" =>
          LET id == outcomes[i].id
              j == OrdinalAt(all_prompts[i].ctx, all_prompts[i].cloze_match.start)
              after == FileClozes(file)
          IN /\ \E k \in CallsOf("update_note_fields") : trace[k].id = id /\ trace[k].out = "ok"
             /\ \E k \in CallsOf("add_tags") : trace[k].id = id /\ trace[k].out = "ok"
             /\ id \in current_file_note_ids
             /\ Cardinality(CallsOf("add_note"))
                  = Cardinality({ h \in 1..Len(outcomes) : outcomes[h].kind # "updated" })
             /\ j <= Len(after)
             /\ after[j].full_text = all_prompts[i].cloze_match.full_text

\* C6: for a grouped prompt that went to "create", add_note was called once for
\* the group, and after the rewrite every member cloze carries in the file the
\* code encode_base52 gives for the id add_note returned.
C6_GroupMembersShareNewCode ==
  (Rewritten /\ Aligned) =>
     \A i \in 1..Len(outcomes) :
        (outcomes[i].kind = "created" /\ ~IsNone(all_prompts[i].group_clozes)) =>
          LET id == outcomes[i].id
              members == Val(all_prompts[i].group_clozes)
              after == FileClozes(file)
          IN /\ Cardinality({ k \in CallsOf("add_note") : trace[k].id = id }) = 1
             /\ \A m \in 1..Len(members) :
                  LET j == OrdinalAt(all_prompts[i].ctx, members[m].start)
                  IN j <= Len(after) /\ after[j].anki_id = Some(encode_base52(id))

\* C7: for a prompt whose primary cloze carries a code that does not decode or
\* that decodes to a note the remote lacks, the run creates one note, and the
\* rewritten file has the code of the new note in that cloze and the old code
\* no longer among its ids.
C7_StaleCodeReplaced ==
  (Rewritten /\ Aligned) =>
     \A i \in 1..Len(outcomes) :
        LET primary == all_prompts[i].cloze_match
            old == WrittenCode(primary.full_text)
            new == encode_base52(outcomes[i].id)
            j == OrdinalAt(all_prompts[i].ctx, primary.start)
            after == FileClozes(file)
        IN (outcomes[i].kind = "created" /\ Truthy(old)) =>
             /\ Cardinality({ k \in CallsOf("add_note") : trace[k].id = outcomes[i].id }) = 1
             /\ j <= Len(after)
             /\ after[j].anki_id = Some(new)
             /\ Val(old) # new => Val(old) \notin IdEntries(after[j].full_text)

\* C8: when add_note or update_note_fields fails with an API error for a prompt,
\* sync_file does not raise; once it has returned, the prompt is counted as
\* skipped, every prompt has been handled, and the sweep and the rewrite ran.
C8_ApiErrorSkipsPrompt ==
  (\E k \in CallsOf("add_note") \cup CallsOf("update_note_fields") : trace[k].out = "api") =>
     /\ pc # "raised"
     /\ pc = "returned" =>
          /\ stats.skipped >= 1
          /\ Len(outcomes) = Len(all_prompts)
          /\ CallsOf("find_notes") # { }
          /\ CallsOf("write_ids_to_file") # { }

\* C9: when notes_info, update_note_fields, add_tags or add_note fails with a
\* connection error, that call is the last of the run: sync_file raises the
\* error, handles no further prompt and does not rewrite the file.
C9_ConnectionErrorAborts ==
  \A k \in 1..Len(trace) :
     (/\ trace[k].op \in { "notes_info", "update_note_fields", "add_tags", "add_note" }
      /\ trace[k].out = "conn") =>
        /\ k = Len(trace)
        /\ pc = "raised"
        /\ err = "conn"

PromptOps == { "notes_info", "update_note_fields", "add_tags", "add_note" }

\* the calls of the orphan sweep
SweepOps == { "find_notes", "delete_notes" }

\* C11: in every run the calls of ensure_note_type_exists are all made, and have
\* all returned, before the first call about notes; a call of the sweep is made
\* only when every prompt has been handled and no call for a prompt follows it;
\* write_ids_to_file is the last call of the run, after the sweep.
C11_CallsInOrder ==
  /\ \A k \in 1..Len(trace) :
       trace[k].op \in NoteOps =>
         LET n == Cardinality({ j \in 1..Len(trace) : trace[j].op \in NoteTypeOps })
         IN /\ n >= 1
            /\ n < k
            /\ SubSeq(trace, 1, n) \in { OkCalls(NoteTypeCalls(b)) : b \in BOOLEAN }
  /\ \A k \in 1..Len(trace) :
       trace[k].op \in SweepOps =>
         /\ Len(outcomes) = Len(all_prompts)
         /\ \A j \in (k + 1)..Len(trace) : trace[j].op \notin PromptOps
  /\ \A k \in CallsOf("write_ids_to_file") :
       /\ k = Len(trace)
       /\ CallsOf("find_notes") # { }
       /\ pc = IF trace[k].out = "io" THEN "raised" ELSE "returned"

\* C11 witness: a run of two prompts or more that updated a note, created one,
\* deleted an orphan and then rewrote the file.
C11_Witness ==
  /\ Rewritten
  /\ Len(all_prompts) >= 2
  /\ CallsOf("update_note_fields") # { }
  /\ CallsOf("add_note") # { }
  /\ CallsOf("delete_notes") # { }

\* C12: a failing find_notes or delete_notes does not leave sync_file: the next
\* step is write_ids_to_file, called with the prompts of the run, whose result
\* the file holds when sync_file has returned; stats["deleted"] stays 0.
C12_SweepFailureNotFatal ==
  \A k \in 1..Len(trace) :
     (trace[k].op \in SweepOps /\ trace[k].out # "ok") =>
        /\ k = Len(trace) => pc = "write"
        /\ k < Len(trace) => trace[k + 1].op = "write_ids_to_file"
        /\ stats.deleted = 0
        /\ Rewritten => file = write_ids_to_file(content_read, all_prompts).content

\* C12 witness: delete_notes failed, and the run returned with the code of a
\* note it created written into the file.
C12_Witness ==
  /\ Rewritten
  /\ \E k \in CallsOf("delete_notes") : trace[k].out # "ok"
  /\ stats.created >= 1
  /\ stats.deleted = 0
  /\ file # content_read

\* C13: for every cloze the writer rewrites, the new text is one cloze that the
\* tokenizer reads with the answer, hint, extra, group id, sequence order and
\* scope of the old text, and with the code the run gave the cloze.
C13_RewrittenClozeKeepsFields ==
  (pc \in { "write", "returned" }) =>
     \A p \in PromptClozeIds :
        LET updates == ClozeUpdates(<< ClozeOf(p) >>)
        IN updates # << >> =>
             LET old == FileClozes(updates[1].old_text)
                 new == FileClozes(updates[1].new_text)
             IN /\ Len(old) = 1
                /\ Len(new) = 1
                /\ new[1].full_text = updates[1].new_text
                /\ new[1].answer = old[1].answer
                /\ new[1].hint = old[1].hint
                /\ new[1].extra = old[1].extra
                /\ new[1].cloze_id = old[1].cloze_id
                /\ new[1].sequence_order = old[1].sequence_order
                /\ new[1].scope = old[1].scope
                /\ new[1].anki_id = ClozeOf(p).anki_id

\* the calls that write the file
WriteOps == { "ensure_file_id", "write_ids_to_file" }

\* C14: when the write of ensure_file_id or of write_ids_to_file raises, the run
\* ends there with that error, no temp file exists and the file holds what it
\* held before the call; after a write that succeeded no temp file exists.
C14_FailedWriteLeavesNoTemp ==
  \A k \in 1..Len(trace) :
     /\ (trace[k].op \in WriteOps /\ trace[k].out = "io") =>
          /\ k = Len(trace)
          /\ pc = "raised"
          /\ err = "io"
          /\ temp = None
          /\ file = IF trace[k].op = "ensure_file_id" THEN file0 ELSE content_read
     /\ (trace[k].op \in WriteOps /\ trace[k].out = "written") => temp = None

\* C14 witness: a run in which ensure_file_id wrote the file and the write of
\* write_ids_to_file raised after a note was created.
C14_Witness ==
  /\ pc = "raised"
  /\ \E k \in CallsOf("ensure_file_id") : trace[k].out = "written"
  /\ \E k \in CallsOf("write_ids_to_file") : trace[k].out = "io"
  /\ stats.created >= 1
  /\ temp = None
  /\ file = content_read

\* C15: on every file, every call of ensure_file_id after the first returns the
\* id the first returned, with was_modified false, and leaves the file as it
\* was; a call on a file that holds an id leaves it as it was.
C15_EnsureFileIdIdempotent ==
  /\ \A k \in 2..Len(returns) :
       /\ returns[k].file_id = returns[1].file_id
       /\ ~returns[k].was_modified
       /\ (IF k < Len(returns) THEN returns[k + 1].before ELSE file) = returns[k].before
  /\ \A k \in 1..Len(returns) :
       Truthy(extract_file_id(returns[k].before)) => ~returns[k].was_modified

\* C16: when sync_file has returned, every note whose id is in the seen set
\* exists and carries the file tag of the run, which is "mnmd-file-" followed by
\* the id ensure_file_id returned; every note the run created carries every
\* default tag as well.
C16_SeenNotesCarryFileTag ==
  pc = "returned" =>
    /\ Head(file_tag) = "mnmd-file-"
    /\ Tail(file_tag) # << >>
    /\ \A id \in current_file_note_ids :
         id \in DOMAIN notes /\ file_tag \in notes[id]
    /\ \A k \in 1..Len(outcomes) :
         outcomes[k].kind \in { "created", "updated" } =>
           outcomes[k].id \in current_file_note_ids
    /\ \A k \in 1..Len(outcomes) :
         outcomes[k].kind = "created" => default_tags \subseteq notes[outcomes[k].id]

\* C16 witness: a run on a file that had no id, which updated a note of the
\* remote and created another one, has returned.
C16_Witness ==
  /\ pc = "returned"
  /\ \E k \in CallsOf("ensure_file_id") : trace[k].out = "written"
  /\ stats.updated >= 1
  /\ stats.created >= 1
  /\ \A id \in current_file_note_ids : file_tag \in notes[id]

\* C17: when the sync command has exited and sync_file raised for one of its
\* files, sync_file has been called for every file and the exit code is 1.
C17_FailureStillSyncsTheRest ==
  (~IsNone(cli_exit) /\ \E k \in 1..SyncFileCalls : cli_files[k].raises # "none") =>
     /\ SyncFileCalls = Len(cli_files)
     /\ cli_exit = Some(1)

\* C18: every cloze parse_clozes emits has start < end within the text, and
\* its full_text is the text from start to end; of two emitted clozes the
\* later one starts after the earlier one starts and not before it ends.
C18_EmittedClozesAreSlices ==
  ~IsNone(parsed) =>
    LET clozes == Val(parsed)
    IN /\ \A k \in 1..Len(clozes) :
            /\ 0 <= clozes[k].start
            /\ clozes[k].start < clozes[k].end
            /\ clozes[k].end <= Len(given_text)
            /\ clozes[k].full_text
                 = [ j \in 1..(clozes[k].end - clozes[k].start) |->
                       given_text[clozes[k].start + j] ]
       /\ \A j \in 1..Len(clozes), k \in 1..Len(clozes) :
            j < k => /\ clozes[j].start < clozes[k].start
                     /\ clozes[j].end <= clozes[k].start

\* C18 witness: two clozes emitted, one with a scope and one that holds
\* another pair of braces.
C18_Witness ==
  /\ ~IsNone(parsed)
  /\ Len(Val(parsed)) = 2
  /\ \E k \in 1..2 : Val(parsed)[k].full_text[Len(Val(parsed)[k].full_text)] = "]"
  /\ \E k \in 1..2 : Len(Val(parsed)[k].full_text) > Len(<< "{", "{", "x", "}", "}", "[", "1", "]" >>)

\* the ranges the scan of the text went over in one step: the clozes emitted
\* and the clozes dropped for an empty answer
ScannedRanges(clozes, dropped) ==
  { << clozes[k].start, clozes[k].end >> : k \in 1..Len(clozes) }
    \cup { << dropped[k].start, dropped[k].end >> :
             k \in { j \in 1..Len(dropped) : dropped[j].kind = "empty" } }

\* C19: parse_clozes returns a list on every text; no emitted cloze has an
\* empty answer and none opens where the braces have no closer; every step of
\* the scan moves forward; after every dropped construct, each cloze with
\* closing braces and an answer that opens outside the clozes the scan went
\* over is emitted.
C19_DroppedConstructsDoNotStopTheScan ==
  ~IsNone(parsed) =>
    LET clozes == Val(parsed)
        dropped == DroppedFrom(given_text, 0)
        ranges == ScannedRanges(clozes, dropped)
    IN /\ DOMAIN clozes = 1..Len(clozes)
       /\ \A k \in 1..Len(clozes) :
            /\ clozes[k].answer # << >>
            /\ WellFormedAt(given_text, clozes[k].start)
       /\ \A k \in 1..Len(dropped) :
            /\ dropped[k].start < dropped[k].end
            /\ \A j \in 1..Len(clozes) : clozes[j].start # dropped[k].start
            /\ dropped[k].kind = "unbalanced" => ~OpensAt(given_text, dropped[k].start)
            /\ dropped[k].kind = "empty" =>
                 OpensAt(given_text, dropped[k].start)
                   /\ ~WellFormedAt(given_text, dropped[k].start)
       /\ \A k \in 1..Len(dropped) :
            \A p \in dropped[k].end..(Len(given_text) - 1) :
               (/\ WellFormedAt(given_text, p)
                /\ \A r \in ranges : ~(r[1] < p /\ p < r[2]))
                 => \E j \in 1..Len(clozes) : clozes[j].start = p

\* C19 witness: a text with an opener that has no closer and a cloze with an
\* empty answer, and a cloze emitted after both.
C19_Witness ==
  /\ ~IsNone(parsed)
  /\ LET dropped == DroppedFrom(given_text, 0)
     IN \E a \in 1..Len(dropped), b \in 1..Len(dropped), k \in 1..Len(Val(parsed)) :
          /\ dropped[a].kind = "unbalanced"
          /\ dropped[b].kind = "empty"
          /\ dropped[a].end <= Val(parsed)[k].start
          /\ dropped[b].end <= Val(parsed)[k].start

\* C20: what encode_base52 returns for a number n >= 0 is not empty and is made
\* of letters of the alphabet of 52 only, and decode_base52 of it returns n.
C20_Base52RoundTrip ==
  /\ ~IsNone(encoded) =>
       /\ Val(encoded) # << >>
       /\ \A k \in 1..Len(Val(encoded)) : Val(encoded)[k] \in Base52Set
  /\ ~IsNone(decoded) => Val(decoded) = Some(given_num)

\* C20 witness: a number whose code has three letters or more, not all the
\* same, has been encoded and decoded back.
C20_Witness ==
  /\ ~IsNone(decoded)
  /\ Val(decoded) = Some(given_num)
  /\ Len(Val(encoded)) >= 3
  /\ \E k \in 2..Len(Val(encoded)) : Val(encoded)[k] # Val(encoded)[1]

\* the positions of the prompts for which this run created a note
CreatedPrompts == { i \in 1..Len(outcomes) : outcomes[i].kind = "created" }

\* C21: after a run that created notes for several prompts and rewrote the
\* file, each cloze of such a prompt carries in the file, at its own rank, a
\* code that decodes to the id of the note created for that prompt.
C21_CodeAtClozeIsOfItsOwnNote ==
  (Rewritten /\ Aligned /\ Cardinality(CreatedPrompts) >= 2) =>
     LET after == FileClozes(file)
     IN \A i \in CreatedPrompts :
          \A m \in 1..Len(ClozesToUpdate(all_prompts[i])) :
             LET j == OrdinalAt(all_prompts[i].ctx, ClozesToUpdate(all_prompts[i])[m].start)
             IN /\ j <= Len(after)
                /\ ~IsNone(after[j].anki_id)
                /\ decode_base52(Val(after[j].anki_id)) = Some(outcomes[i].id)


\* what generate_prompts gives for the contexts of a content when the document is passed on
ScopedPrompts(content) == ContextPrompts(extract_card_contexts(content), 1, Some(content))

\* the prompts of the run whose context is an implicit paragraph and whose primary cloze has
\* a scope other than (0, 0)
ScopedImplicit ==
  LET contexts == extract_card_contexts(content_read)
  IN { i \in 1..Len(all_prompts) :
         /\ ~contexts[all_prompts[i].ctx].explicit
         /\ \/ all_prompts[i].cloze_match.scope.before # 0
            \/ all_prompts[i].cloze_match.scope.after # 0 }

\* C22: during sync_file, the masked text of a prompt whose context is an implicit paragraph
\* and whose primary cloze has a non-default scope (b, a) is the masking of the document
\* slice spanning paragraphs idx+b..idx+a (clamped) around the cloze's paragraph
C22_TextOfTheScopeExpandedSlice ==
  all_prompts # << >> =>
     LET scoped == ScopedPrompts(content_read)
     IN \A i \in ScopedImplicit : all_prompts[i].context = scoped[i].context


\* the groups the parser alone built, as << context, group >> positions
GeneratedGroups ==
  IF IsNone(generated) THEN { }
  ELSE { kg \in (1..Len(Val(generated))) \X (1..MaxMembers + 1) :
           kg[2] <= Len(Val(generated)[kg[1]].groups) }

GroupAt(kg) == Val(generated)[kg[1]].groups[kg[2]]

\* at least one member of the group has sequence_order set
HasSequenceMember(group) ==
  \E m \in 1..Len(group.clozes) : ~IsNone(group.clozes[m].sequence_order)

\* C23: for every list of clozes of one context, the group built for a group_id is a
\* sequence group exactly when at least one of its members has sequence_order set,
\* wherever that member stands among the members
C23_SequenceGroupIffSomeMemberOrdered ==
  \A kg \in GeneratedGroups :
     GroupAt(kg).group_id.named => (GroupAt(kg).is_sequence <=> HasSequenceMember(GroupAt(kg)))


\* the text with every cloze of the context replaced, left to right: what lies between two
\* clozes is kept, replacements[k] stands where clozes[k] stood
RECURSIVE MaskedFrom(_, _, _, _, _)
MaskedFrom(content, clozes, replacements, k, pos) ==
  IF k > Len(clozes) THEN Slice(content, pos, Len(content))
  ELSE Slice(content, pos, clozes[k].start) \o replacements[k]
         \o MaskedFrom(content, clozes, replacements, k + 1, clozes[k].end)

\* the members of a group in ascending sequence_order, ties in source order
InSequenceOrder(group) ==
  SortedByKey(group.clozes,
    [ m \in 1..Len(group.clozes) |->
        IF IsNone(group.clozes[m].sequence_order) THEN 0 ELSE Val(group.clozes[m].sequence_order) ])

\* the prompts of context k whose primary cloze has this group_id, in the order emitted
PromptsOfGroup(k, group_id) ==
  SelectSeq(Val(generated)[k].prompts, LAMBDA p : p.cloze_match.cloze_id = Some(group_id.id))

\* the text of the i-th prompt of a sequence: the i-th member hidden, the earlier members
\* and the clozes of other groups shown, the later members as "..."
SequenceText(content, clozes, ordered, i) ==
  MaskedFrom(content, clozes,
    [ c \in 1..Len(clozes) |->
        IF clozes[c] = ordered[i] THEN << "__CLOZE__" >>
        ELSE IF \E j \in (i + 1)..Len(ordered) : ordered[j] = clozes[c] THEN << ".", ".", "." >>
        ELSE clozes[c].answer ], 1, 0)

\* the prompts of group kg are those of a sequence
EmittedAsSequence(kg) ==
  LET k == kg[1]
      ordered == InSequenceOrder(GroupAt(kg))
      prompts == PromptsOfGroup(k, GroupAt(kg).group_id)
  IN /\ Len(prompts) = Len(ordered)
     /\ \A i \in 1..Len(ordered) :
          /\ prompts[i].cloze_match = ordered[i]
          /\ IsNone(prompts[i].group_clozes)
          /\ prompts[i].context =
               SequenceText(Val(extracted)[k].content, Val(generated)[k].clozes, ordered, i)

\* C24: for a sequence group of n members generate_prompts emits n prompts in ascending
\* sequence_order, each with its own member as primary and without group members; in the
\* i-th the i-th member is __CLOZE__, the earlier members and the clozes of other groups
\* are their answers, the later members are "..."
C24_SequencePromptsOneByOne ==
  \A kg \in GeneratedGroups :
     (GroupAt(kg).group_id.named /\ HasSequenceMember(GroupAt(kg))) => EmittedAsSequence(kg)

\* the same holds of the groups whose first member has sequence_order set: these are the
\* groups that _group_clozes marks is_sequence
FirstMemberOrderedAsSequence ==
  \A kg \in GeneratedGroups :
     (GroupAt(kg).group_id.named /\ ~IsNone(GroupAt(kg).clozes[1].sequence_order))
        => EmittedAsSequence(kg)


\* the remote notes that carry the tag of the file
TaggedNotes == { n \in DOMAIN notes : file_tag \in notes[n] }

\* no remote call of this run has failed
NoCallFailed == \A k \in 1..Len(trace) : trace[k].out \notin FailureKinds

\* C25: when a run aborted after it created notes and before the rewrite, the next run on
\* the same file that completes leaves exactly one remote note with the file's tag per
\* prompt of the file: the notes of the aborted run are deleted as orphans, none is doubled
C25_OneNotePerPromptAfterAbort ==
  (pc = "returned" /\ since = "aborted with notes created" /\ NoCallFailed) =>
     Cardinality(TaggedNotes) = Len(all_prompts)


\* the positions of the prompts that this run has bound to a remote note
BoundPrompts == { i \in 1..Len(outcomes) : outcomes[i].kind \in { "created", "updated" } }

\* C27: within one run no two prompts of the file are bound to the same remote note: the
\* note ids recorded as seen for distinct prompts are distinct, so on normal return
\* created + updated is the size of the seen set
C27_NoTwoPromptsOnOneNote ==
  /\ \A i, j \in BoundPrompts : i # j => outcomes[i].id # outcomes[j].id
  /\ pc = "returned" => stats.created + stats.updated = Cardinality(current_file_note_ids)


\* the clozes of each context of a content, as sync_file tokenizes them
ContextClozes(content) ==
  LET contexts == extract_card_contexts(content)
  IN [ k \in 1..Len(contexts) |-> parse_clozes(contexts[k].content, contexts[k].start_line) ]

\* two clozes of one context are members of one group that is not a sequence
SameGroup(clozes, i, j) ==
  /\ Truthy(clozes[i].cloze_id)
  /\ clozes[i].cloze_id = clozes[j].cloze_id
  /\ \A m \in 1..Len(clozes) :
       clozes[m].cloze_id = clozes[i].cloze_id => IsNone(clozes[m].sequence_order)

\* C26: after a run that completes, all member clozes of a non-sequence group carry the
\* same code in the file, also when the group took the update path and a member had no
\* code or another code before the run
C26_GroupMembersShareOneCode ==
  (pc = "returned" /\ NoCallFailed) =>
     LET after == ContextClozes(file)
     IN \A k \in 1..Len(after) : \A i, j \in 1..Len(after[k]) :
          SameGroup(after[k], i, j) =>
             /\ ~IsNone(after[k][i].anki_id)
             /\ after[k][i].anki_id = after[k][j].anki_id


\* the clozes of the document, each with the 0-based line it stands on
DocClozes == parse_clozes(given_document, 0)

\* the contexts that hold a line
Holders(contexts, line) ==
  { k \in 1..Len(contexts) : \E n \in 1..Len(contexts[k].line_numbers) :
                                contexts[k].line_numbers[n] = line }

\* the clozes of the document that stand on a line of the context
ClozesWithin(context) ==
  { c \in 1..Len(DocClozes) : \E n \in 1..Len(context.line_numbers) :
                                 context.line_numbers[n] = DocClozes[c].line_number }

\* C28: every well-formed cloze with a non-empty answer of the document lies in exactly
\* one context that extract_card_contexts returns, and so yields a prompt; so do the
\* clozes of a "> ?" block whose last line is directly followed by another "> ?" line
C28_EveryClozeInOneContext ==
  ~IsNone(generated) =>
     /\ \A c \in 1..Len(DocClozes) :
          Cardinality(Holders(Val(extracted), DocClozes[c].line_number)) = 1
     /\ \A k \in 1..Len(Val(extracted)) :
          Len(Val(generated)[k].prompts) = Cardinality(ClozesWithin(Val(extracted)[k]))


\* the 0-based lines of the document that belong to a "> ?" block: an opener line, or a
\* line reached from an opener through lines that start with ">"
BlockLines ==
  LET lines == SplitAll(given_document, "\n")
  IN { i \in 0..(Len(lines) - 1) :
         \E j \in 0..i :
            /\ Strip(lines[j + 1]) = << ">", " ", "?" >>
            /\ \A m \in (j + 1)..i : StartsWith(lines[m + 1], << ">" >>) }

\* the lines start_line..end_line of a context
LineRange(context) == context.start_line..context.end_line

\* C29: for every document extract_card_contexts returns the contexts in ascending
\* start_line order, their line ranges are pairwise disjoint, and no line of a "> ?"
\* block belongs to an implicit paragraph context
C29_ContextsOrderedAndDisjoint ==
  ~IsNone(extracted) =>
     LET contexts == Val(extracted)
     IN /\ \A k \in 1..(Len(contexts) - 1) : contexts[k].start_line <= contexts[k + 1].start_line
        /\ \A k, l \in 1..Len(contexts) :
             k # l => LineRange(contexts[k]) \cap LineRange(contexts[l]) = { }
        /\ \A k \in 1..Len(contexts) :
             ~contexts[k].explicit =>
                /\ LineRange(contexts[k]) \cap BlockLines = { }
                /\ \A n \in 1..Len(contexts[k].line_numbers) :
                     contexts[k].line_numbers[n] \notin BlockLines


\* a document with a "> ?" block and a paragraph, each giving a context
C29_BlockAndParagraph ==
  /\ ~IsNone(extracted)
  /\ \E k, l \in 1..Len(Val(extracted)) :
       /\ Val(extracted)[k].explicit
       /\ ~Val(extracted)[l].explicit
       /\ k < l
  /\ \E k, l \in 1..Len(Val(extracted)) :
       /\ ~Val(extracted)[k].explicit
       /\ Val(extracted)[l].explicit
       /\ k < l


\* config.build_source_link(file_path, line_number): the line L of the link, the same in
\* the vscode, vscodium and nvim protocols; note_builder passes prompt.line_number
SourceLine(prompt) == prompt.line_number

\* the n-th smallest element of a set of numbers
NthOf(S, n) == CHOOSE x \in S : Cardinality({ y \in S : y < x }) = n - 1

\* the 1-based number of the document line on which the primary cloze of a prompt of
\* context k starts: the primary is the m-th cloze of the context, so it is the m-th of
\* the clozes of the document that stand on the lines of the context
FileLine(k, prompt) ==
  LET clozes == Val(generated)[k].clozes
      m == CHOOSE c \in 1..Len(clozes) : clozes[c].start = prompt.cloze_match.start
  IN DocClozes[NthOf(ClozesWithin(Val(extracted)[k]), m)].line_number + 1

\* C30: for every prompt the line L of the Source link is the 1-based number of the file
\* line on which the primary cloze starts, in implicit paragraphs and in "> ?" blocks
\* alike, also in a block with blank ">" lines right after the "> ?" line
C30_SourceLineIsOneBased ==
  ~IsNone(generated) =>
     \A k \in 1..Len(Val(generated)) :
        Len(Val(generated)[k].clozes) = Cardinality(ClozesWithin(Val(extracted)[k])) =>
           \A n \in 1..Len(Val(generated)[k].prompts) :
              SourceLine(Val(generated)[k].prompts[n]) = FileLine(k, Val(generated)[k].prompts[n])

\* the line L of the Source link is the 0-based index of that line
SourceLineIsZeroBased ==
  ~IsNone(generated) =>
     \A k \in 1..Len(Val(generated)) :
        Len(Val(generated)[k].clozes) = Cardinality(ClozesWithin(Val(extracted)[k])) =>
           \A n \in 1..Len(Val(generated)[k].prompts) :
              SourceLine(Val(generated)[k].prompts[n]) + 1 = FileLine(k, Val(generated)[k].prompts[n])

====
